---- MODULE Spec2Model ----
(***************************************************************************)
(* media-backend: the durable task queue (media_backend/queue.py), the     *)
(* progress channel (media_backend/progress.py), the worker's claim loop   *)
(* (worker.py) and the ffmpeg pipeline executor                            *)
(* (media_backend/tasks/ffmpeg_pipeline.py).                               *)
(*                                                                         *)
(* `tasks` is the committed content of table media_tasks, in created_at    *)
(* order; a row's index is its id.  Each worker is one process running     *)
(* worker.main; pc[w] is its position in run_one.                          *)
(***************************************************************************)
EXTENDS Integers, Sequences, FiniteSets, TLC

\* ------------------------------------------------------------------ bounds
NumWorkers == 2
MaxTasks == 2
MaxReports == 1
MaxCmds == 2
MaxCands == 3
MaxLines == 3
MaxOpts == 2
\* Characters of text the child process writes; characters a pipe holds.
MaxChars == 2
PipeCap == 2

Workers == 1..NumWorkers
TaskIds == 1..MaxTasks

\* ------------------------------------------------------------- value model
\* SQL NULL / Python None.
NULL == [null |-> TRUE]

KnownKinds == {"demo.sleep", "ffmpeg.probe", "ffmpeg.pipeline", "ffmpeg.search"}
Kinds == KnownKinds \cup {"bogus"}
\* Kinds enqueued under Spec, where workers and tasks interleave; SpecOne runs
\* one task of every kind.
EnqueuedKinds == {"demo.sleep", "bogus"}

\* Integers an executor may hand to set_progress (in and out of range).
ProgressInputs == {-1, 50, 101}

\* str(e) of the exceptions an executor may raise (the empty text included).
ErrorTexts == {"", "boom"}

\* A non-NULL value of a text column.
Text(s) == [text |-> s]

NoOutcome == [type |-> "none"]
Returned(v) == [type |-> "return", value |-> v]
Raised(cls, text) == [type |-> "raise", cls |-> cls, text |-> text]

\* json.dumps(v) bound to a jsonb column: the stored document; a Python None
\* becomes the JSON document null, which is not SQL NULL.
JsonDumps(v) == [jsonb |-> v]
\* What psycopg hands back for a jsonb column (SQL NULL -> None).
JsonLoads(col) == IF col = NULL THEN NULL ELSE col.jsonb

\* Mutant: the UPDATE sets `meta = %s::jsonb`, the new document replaces meta.
JsonbConcat_replace(a, b) == b

\* jsonb `||`: shallow union, right operand wins per top-level key.
JsonbConcat(a, b) ==
  [k \in (DOMAIN a) \cup (DOMAIN b) |-> IF k \in DOMAIN b THEN b[k] ELSE a[k]]

NoExtra == [k \in {} |-> NULL]

\* No client is connected to the event stream.
NoStream == [at |-> "none", id |-> 0, last_seq |-> -1, events |-> <<>>]

VARIABLES
  tasks,      \* committed rows of media_tasks, oldest first
  rowlock,    \* rowlock[w]: row locked by w's open claim transaction, 0 if none
  pc,         \* pc[w]: position of worker w in main/run_one
  cur,        \* cur[w]: the task run_one of w holds (0 if none)
  sink,       \* sink[w]: task id the progress sink of w's context is bound to (0: unbound)
  outcome,    \* outcome[w]: what the executor returned or raised
  px,         \* px[w]: locals of run_pipeline / attempt / _run_single_ffmpeg_command
  sunk,       \* progress argument of the most recent call of a progress sink
  claimlog,   \* claimlog[t]: the workers claim_next_task returned row t to, in order
  schema,     \* the migrations of the store: advisory lock, ledger, scripts executed
  stream      \* one client of GET /api/tasks/{id}/events: position, last_seq, events sent

vars == <<tasks, rowlock, pc, cur, sink, outcome, px, sunk, claimlog, schema, stream>>

\* ------------------------------------------------------------------ queue.py
NewRow(kind, payload) ==
  [kind |-> kind, payload |-> payload, status |-> "queued", progress |-> 0,
   stage |-> "", meta |-> [seq |-> 0], seq |-> 0, result |-> NULL,
   error |-> NULL, locked_by |-> 0]

ClampStore(p) == IF p < 0 THEN 0 ELSE IF p > 100 THEN 100 ELSE p

\* Mutant: the UPDATE without `seq = seq + 1`.
update_task_progress_noseq(row, progress, stage, extra) ==
  [row EXCEPT !.progress = ClampStore(progress),
              !.stage = stage,
              !.meta = JsonbConcat(@, extra)]

update_task_progress(row, progress, stage, extra) ==
  [row EXCEPT !.progress = ClampStore(progress),
              !.stage = stage,
              !.meta = JsonbConcat(@, extra),
              !.seq = @ + 1]

\* Mutant: the UPDATE without `result = %s::jsonb`.
finish_task_noresult(row, result, extra) ==
  [row EXCEPT !.status = "finished",
              !.progress = 100,
              !.stage = "done",
              !.meta = JsonbConcat(@, extra),
              !.seq = @ + 1]

finish_task(row, result, extra) ==
  [row EXCEPT !.status = "finished",
              !.progress = 100,
              !.stage = "done",
              !.result = JsonDumps(result),
              !.meta = JsonbConcat(@, extra),
              !.seq = @ + 1]

\* Mutant: the UPDATE without `status = 'failed'`.
fail_task_nostatus(row, error, extra) ==
  [row EXCEPT !.stage = "error",
              !.error = Text(IF error = "" THEN "failed" ELSE error),
              !.meta = JsonbConcat(@, extra),
              !.seq = @ + 1]

\* Mutant: the UPDATE of fail_task also resets `progress`.
fail_task_zero(row, error, extra) ==
  [row EXCEPT !.status = "failed",
              !.progress = 0,
              !.stage = "error",
              !.error = Text(IF error = "" THEN "failed" ELSE error),
              !.meta = JsonbConcat(@, extra),
              !.seq = @ + 1]

\* Mutant: the error text is dropped, every failure is recorded as "failed".
fail_task_generic(row, error, extra) ==
  [row EXCEPT !.status = "failed",
              !.stage = "error",
              !.error = Text("failed"),
              !.meta = JsonbConcat(@, extra),
              !.seq = @ + 1]

fail_task(row, error, extra) ==
  [row EXCEPT !.status = "failed",
              !.stage = "error",
              !.error = Text(IF error = "" THEN "failed" ELSE error),
              !.meta = JsonbConcat(@, extra),
              !.seq = @ + 1]

\* The UPDATE of claim_next_task applied to the candidate row.
claim_update(row, w) ==
  [row EXCEPT !.status = "started", !.locked_by = w, !.seq = @ + 1]

\* Rows another open transaction holds a row lock on.
LockedByOther(w) == {rowlock[v] : v \in Workers \ {w}} \ {0}

\* Mutant: the candidate is read without FOR UPDATE SKIP LOCKED.
Candidate_nolock(w) ==
  LET q == {t \in 1..Len(tasks) : tasks[t].status = "queued"}
  IN IF q = {} THEN 0 ELSE CHOOSE t \in q : \A u \in q : t <= u

\* Mutant: the candidate is read without WHERE status = 'queued'.
Candidate_nowhere(w) ==
  LET q == {t \in 1..Len(tasks) : t \notin LockedByOther(w)}
  IN IF q = {} THEN 0 ELSE CHOOSE t \in q : \A u \in q : t <= u

\* Mutant: the candidate is read with ORDER BY created_at DESC.
Candidate_newest(w) ==
  LET q == {t \in 1..Len(tasks) : tasks[t].status = "queued" /\ t \notin LockedByOther(w)}
  IN IF q = {} THEN 0 ELSE CHOOSE t \in q : \A u \in q : t >= u

\* Mutant: the candidate is read WHERE status IN ('queued', 'started'): a
\* claim that is already held is taken over.
Candidate_stale(w) ==
  LET q == {t \in 1..Len(tasks) : tasks[t].status \in {"queued", "started"} /\
                                  t \notin LockedByOther(w)}
  IN IF q = {} THEN 0 ELSE CHOOSE t \in q : \A u \in q : t <= u

\* CTE `candidate`: WHERE status = 'queued' ORDER BY created_at
\* FOR UPDATE SKIP LOCKED LIMIT 1.  0 when no row qualifies.
Candidate(w) ==
  LET q == {t \in 1..Len(tasks) : tasks[t].status = "queued" /\ t \notin LockedByOther(w)}
  IN IF q = {} THEN 0 ELSE CHOOSE t \in q : \A u \in q : t <= u

\* main.py enqueue_*: INSERT of a queued row.
enqueue(kind, payload) ==
  /\ Len(tasks) < MaxTasks
  /\ tasks' = Append(tasks, NewRow(kind, payload))
  /\ UNCHANGED <<rowlock, pc, cur, sink, outcome, px, sunk, claimlog, schema, stream>>

\* Mutant: the candidate is read with FOR UPDATE alone; the statement waits
\* while the oldest queued row is locked by another transaction.
claim_next_task_wait(w) ==
  /\ pc[w] = "idle"
  /\ Candidate_nolock(w) \notin LockedByOther(w)
  /\ LET t == Candidate_nolock(w) IN
       /\ rowlock' = [rowlock EXCEPT ![w] = t]
       /\ pc' = [pc EXCEPT ![w] = IF t = 0 THEN "idle" ELSE "commit"]
  /\ UNCHANGED <<tasks, cur, sink, outcome, px, sunk, claimlog, schema, stream>>

\* Mutant: the worker asks for the next task while an executor is running.
claim_next_task_eager(w) ==
  /\ pc[w] \in {"idle", "exec"}
  /\ LET t == Candidate(w) IN
       /\ rowlock' = [rowlock EXCEPT ![w] = t]
       /\ pc' = [pc EXCEPT ![w] = IF t = 0 THEN pc[w] ELSE "commit"]
  /\ UNCHANGED <<tasks, cur, sink, outcome, px, sunk, claimlog, schema, stream>>

\* claim_next_task, the statement: the candidate row is locked and updated in
\* w's transaction; nothing is visible to others before the commit.  With no
\* candidate the call returns None, run_one returns False and main sleeps
\* idle_s before it calls run_one again.
claim_next_task(w) ==
  /\ pc[w] = "idle"
  /\ LET t == Candidate(w) IN
       /\ rowlock' = [rowlock EXCEPT ![w] = t]
       /\ pc' = [pc EXCEPT ![w] = IF t = 0 THEN "idle" ELSE "commit"]
  /\ UNCHANGED <<tasks, cur, sink, outcome, px, sunk, claimlog, schema, stream>>

\* Mutant: the transaction of claim_next_task is rolled back.
claim_commit_rollback(w) ==
  /\ pc[w] = "commit"
  /\ rowlock' = [rowlock EXCEPT ![w] = 0]
  /\ pc' = [pc EXCEPT ![w] = "idle"]
  /\ UNCHANGED <<tasks, cur, sink, outcome, px, sunk, claimlog, schema, stream>>

\* claim_next_task, conn.commit() and return dict(row).
claim_commit(w) ==
  /\ pc[w] = "commit"
  /\ LET t == rowlock[w] IN
       /\ tasks' = [tasks EXCEPT ![t] = claim_update(@, w)]
       /\ cur' = [cur EXCEPT ![w] = t]
       /\ claimlog' = [claimlog EXCEPT ![t] = Append(@, w)]
  /\ rowlock' = [rowlock EXCEPT ![w] = 0]
  /\ pc' = [pc EXCEPT ![w] = "claimed"]
  /\ UNCHANGED <<sink, outcome, px, sunk, schema, stream>>

\* -------------------------------------------------------------- progress.py
\* Mutant: set_progress forwards the value as given.
ClampChannel_none(p) == p

ClampChannel(p) == IF p < 0 THEN 0 ELSE IF p > 100 THEN 100 ELSE p

\* set_progress called in w's context: a no-op when nothing is bound, else the
\* clamped value goes to the sink (worker.make_progress_sink), which calls
\* update_task_progress on the bound task's row.
set_progress(w, progress, stage, extra) ==
  IF sink[w] = 0
  THEN UNCHANGED <<tasks, sunk>>
  ELSE /\ sunk' = ClampChannel(progress)
       /\ tasks' = [tasks EXCEPT ![sink[w]] =
                      update_task_progress(@, ClampChannel(progress), stage, extra)]

\* Values a caller may pass as `progress`: integers in and out of range, and
\* a value int() does not accept.
ProgressArgs ==
  {[isint |-> TRUE, val |-> v] : v \in ProgressInputs} \cup {[isint |-> FALSE, val |-> 0]}

\* Mutant: int(progress) is evaluated before the sink is looked at.
IntRaises_early(w, a) == ~a.isint

\* set_progress: `p = int(progress)` raises; the line is reached only with a
\* sink bound.
IntRaises(w, a) == sink[w] # 0 /\ ~a.isint

\* Code of the worker process outside run_one calls set_progress(a).
call_set_progress(w, a) ==
  /\ pc[w] = "idle"
  /\ pc' = [pc EXCEPT ![w] = "calling"]
  /\ outcome' = [outcome EXCEPT ![w] = [type |-> "call", arg |-> a]]
  /\ UNCHANGED <<tasks, rowlock, cur, sink, px, sunk, claimlog, schema, stream>>

\* The body of that call: it returns, or an exception leaves it.
set_progress_return(w) ==
  /\ pc[w] = "calling"
  /\ IF IntRaises(w, outcome[w].arg)
     THEN /\ pc' = [pc EXCEPT ![w] = "crashed"]
          /\ UNCHANGED <<tasks, sunk>>
     ELSE /\ set_progress(w, outcome[w].arg.val, "", NoExtra)
          /\ pc' = [pc EXCEPT ![w] = "idle"]
  /\ outcome' = [outcome EXCEPT ![w] = NoOutcome]
  /\ UNCHANGED <<rowlock, cur, sink, px, claimlog, schema, stream>>

NoPx == [at |-> "none"]

EmptyBlock == [k \in {} |-> NULL]

\* The locals of _run_single_ffmpeg_command that handle_line and
\* emit_progress use; `read` is stdout_lines and stderr_lines as one list, in
\* the order read, each line with what became of it.
RunnerLocals ==
  [kv_block |-> EmptyBlock, kv_raw |-> <<>>, last_raw |-> <<>>, read |-> <<>>]

\* The two pipes of the child process in the order select() is given them.
Streams == <<"stdout", "stderr">>
StreamSet == {"stdout", "stderr"}

NoText == [s \in StreamSet |-> <<>>]

\* The child is not inside a write.
NoPend == [s |-> "none", c |-> ""]

\* The pipes and what _run_single_ffmpeg_command keeps of them.  A text is a
\* sequence of characters, "x" a character of a line and "nl" a line end.
\* pipe: written and not yet read; buf: out_buf and err_buf; lines:
\* stdout_lines and stderr_lines; rlist: what select() returned and is not yet
\* read; rc and tail: the return code and the stderr tail of the error;
\* written: all the child wrote (repeated line ends kept once); pend: the
\* write the child is blocked in.
IoStart ==
  [pipe |-> NoText, buf |-> NoText, lines |-> NoText, written |-> NoText,
   rlist |-> <<>>, pend |-> NoPend, rc |-> -1, tail |-> <<>>]

\* run_pipeline entered: attempt(commands, "primary") at its first iteration.
PxStart ==
  [at |-> "loop", attempt |-> "primary", i |-> 0, history |-> <<>>,
   proc |-> "none", expired |-> FALSE, err |-> NoOutcome,
   runlog |-> <<>>, overran |-> FALSE, loc |-> RunnerLocals, io |-> IoStart]

\* run_search entered: the locals of run_search next to those of _run_attempt
\* and _run_single_ffmpeg_command.  ordered: original indices in the order
\* tried; oi: order_index; attempts: the attempts log; runs: the processes
\* started for the candidates already left, runlog those of the current one.
SxStart ==
  [at |-> "sort", attempt |-> "primary", i |-> 0, history |-> <<>>,
   proc |-> "none", expired |-> FALSE, err |-> NoOutcome,
   runlog |-> <<>>, overran |-> FALSE, loc |-> RunnerLocals, io |-> IoStart,
   ordered |-> <<>>, oi |-> 0, attempts |-> <<>>, runs |-> <<>>]

\* Mutant: the sink is made for the oldest row of the table instead of the
\* task claimed.
bind_progress_oldest(w) ==
  /\ pc[w] = "claimed"
  /\ sink' = [sink EXCEPT ![w] = 1]
  /\ pc' = [pc EXCEPT ![w] = "exec"]
  /\ px' = [px EXCEPT ![w] =
              IF tasks[cur[w]].kind = "ffmpeg.pipeline" /\ tasks[cur[w]].payload # NULL
              THEN PxStart
              ELSE IF tasks[cur[w]].kind = "ffmpeg.search" /\ tasks[cur[w]].payload # NULL
              THEN SxStart ELSE NoPx]
  /\ UNCHANGED <<tasks, rowlock, cur, outcome, sunk, claimlog, schema, stream>>

\* run_one: the task's fields are read and bind_progress(task_id, sink) is called.
bind_progress(w) ==
  /\ pc[w] = "claimed"
  /\ sink' = [sink EXCEPT ![w] = cur[w]]
  /\ pc' = [pc EXCEPT ![w] = "exec"]
  /\ px' = [px EXCEPT ![w] =
              IF tasks[cur[w]].kind = "ffmpeg.pipeline" /\ tasks[cur[w]].payload # NULL
              THEN PxStart
              ELSE IF tasks[cur[w]].kind = "ffmpeg.search" /\ tasks[cur[w]].payload # NULL
              THEN SxStart ELSE NoPx]
  /\ UNCHANGED <<tasks, rowlock, cur, outcome, sunk, claimlog, schema, stream>>

\* Progress reports written so far: every mutation of a row but its claim and
\* its terminal write.
ReportsOf(row) ==
  row.seq - (IF row.status = "queued" THEN 0 ELSE 1)
          - (IF row.status \in {"finished", "failed"} THEN 1 ELSE 0)

RECURSIVE SumReports(_)
SumReports(n) == IF n = 0 THEN 0 ELSE ReportsOf(tasks[n]) + SumReports(n - 1)

ReportsMade == SumReports(Len(tasks))

\* The executors seen from run_one: sleep_task, probe_ffmpeg, run_pipeline and
\* run_search report progress any number of times, then return or raise.
Executes(w) ==
  /\ pc[w] = "exec"
  /\ tasks[cur[w]].kind \in KnownKinds
  /\ px[w] = NoPx

exec_set_progress(w, p) ==
  /\ Executes(w)
  /\ ReportsMade < MaxReports
  /\ set_progress(w, p, "running", NoExtra)
  /\ UNCHANGED <<rowlock, pc, cur, sink, outcome, px, claimlog, schema, stream>>

\* The value an executor of this kind returns for task t.
ResultOf(kind, t) == [kind |-> kind, artifactPath |-> t]

exec_return(w) ==
  /\ Executes(w)
  /\ outcome' = [outcome EXCEPT ![w] = Returned(ResultOf(tasks[cur[w]].kind, cur[w]))]
  /\ pc' = [pc EXCEPT ![w] = "return"]
  /\ UNCHANGED <<tasks, rowlock, cur, sink, px, sunk, claimlog, schema, stream>>

exec_raise(w, text) ==
  /\ Executes(w)
  /\ outcome' = [outcome EXCEPT ![w] = Raised("RuntimeError", text)]
  /\ pc' = [pc EXCEPT ![w] = "raise"]
  /\ UNCHANGED <<tasks, rowlock, cur, sink, px, sunk, claimlog, schema, stream>>

\* run_one: no branch matches the kind.
unknown_kind(w) ==
  /\ pc[w] = "exec"
  /\ tasks[cur[w]].kind \notin KnownKinds
  /\ outcome' = [outcome EXCEPT ![w] = Raised("ValueError", "unknown task kind")]
  /\ pc' = [pc EXCEPT ![w] = "raise"]
  /\ UNCHANGED <<tasks, rowlock, cur, sink, px, sunk, claimlog, schema, stream>>

\* run_one: finish_task(conn, task_id, result); return True.
run_one_finish(w) ==
  /\ pc[w] = "return"
  /\ tasks' = [tasks EXCEPT ![cur[w]] = finish_task(@, outcome[w].value, NoExtra)]
  /\ pc' = [pc EXCEPT ![w] = "finally"]
  /\ UNCHANGED <<rowlock, cur, sink, outcome, px, sunk, claimlog, schema, stream>>

\* Mutant: the handler catches RuntimeError and its subclasses only.
Caught_runtime(cls) == cls \in {"RuntimeError"}

\* `except Exception`: the classes the handler of run_one catches.
Caught(cls) == cls \in {"ValueError", "RuntimeError", "TimeoutError", "NameError"}

\* Mutant: the handler swallows the exception without writing fail_task.
run_one_except_drop(w) ==
  /\ pc[w] = "raise"
  /\ pc' = [pc EXCEPT ![w] = "finally"]
  /\ UNCHANGED <<tasks, rowlock, cur, sink, outcome, px, sunk, claimlog, schema, stream>>

\* run_one: except Exception as e: fail_task(conn, task_id, str(e)); return True.
\* An exception the handler does not catch leaves run_one and main.
run_one_except(w) ==
  /\ pc[w] = "raise"
  /\ IF Caught(outcome[w].cls)
     THEN /\ tasks' = [tasks EXCEPT ![cur[w]] = fail_task(@, outcome[w].text, NoExtra)]
          /\ pc' = [pc EXCEPT ![w] = "finally"]
     ELSE /\ pc' = [pc EXCEPT ![w] = "crashed"]
          /\ UNCHANGED tasks
  /\ UNCHANGED <<rowlock, cur, sink, outcome, px, sunk, claimlog, schema, stream>>

\* Mutant: the finally clause does not reset the context variables.
unbind_progress_leak(w) ==
  /\ pc[w] = "finally"
  /\ pc' = [pc EXCEPT ![w] = "idle"]
  /\ cur' = [cur EXCEPT ![w] = 0]
  /\ outcome' = [outcome EXCEPT ![w] = NoOutcome]
  /\ px' = [px EXCEPT ![w] = NoPx]
  /\ UNCHANGED <<tasks, rowlock, sink, sunk, claimlog, schema, stream>>

\* run_one: finally: unbind_progress(tokens); main loops again.
unbind_progress(w) ==
  /\ pc[w] = "finally"
  /\ sink' = [sink EXCEPT ![w] = 0]
  /\ pc' = [pc EXCEPT ![w] = "idle"]
  /\ cur' = [cur EXCEPT ![w] = 0]
  /\ outcome' = [outcome EXCEPT ![w] = NoOutcome]
  /\ px' = [px EXCEPT ![w] = NoPx]
  /\ UNCHANGED <<tasks, rowlock, sunk, claimlog, schema, stream>>

\* The worker process is killed (or its host goes down): an open claim
\* transaction is rolled back by the store; nothing else of the store
\* changes, and nothing of run_one runs again, its handlers included.
worker_dies(w) ==
  /\ pc[w] \notin {"dead", "crashed"}
  /\ pc' = [pc EXCEPT ![w] = "dead"]
  /\ rowlock' = [rowlock EXCEPT ![w] = 0]
  /\ UNCHANGED <<tasks, cur, sink, outcome, px, sunk, claimlog, schema, stream>>

\* ------------------------------------------------- tasks/ffmpeg_pipeline.py
\* A command of a pipeline payload: args empty or not, timeoutMs (0: absent).
CommandSpecs ==
  {[args |-> TRUE, timeoutMs |-> 0], [args |-> TRUE, timeoutMs |-> 1],
   [args |-> FALSE, timeoutMs |-> 0]}

SeqsUpTo(S, n) == UNION {[1..k -> S] : k \in 0..n}

\* run_one: commands = payload.get("commands") or [];
\* fallback_commands = payload.get("fallback_commands") or None (<<>> here).
PipelinePayloads ==
  {[commands |-> c, fallback_commands |-> f] :
     c \in SeqsUpTo(CommandSpecs, MaxCmds), f \in SeqsUpTo(CommandSpecs, MaxCmds)}

TimeoutText == "ffmpeg timeout"
ExitText == "ffmpeg exit 1"
ArgsText == "ffmpeg command args is empty"

\* w is inside _run_single_ffmpeg_command or one of its callers.
InRunner(w) == pc[w] = "exec" /\ px[w] # NoPx

InPipeline(w) == InRunner(w) /\ tasks[cur[w]].kind = "ffmpeg.pipeline"

InSearch(w) == InRunner(w) /\ tasks[cur[w]].kind = "ffmpeg.search"

\* run_search: (orig_index, cand) of the iteration the loop is in.
OrigIndex(w) == px[w].ordered[px[w].oi + 1]
CandOf(w) == tasks[cur[w]].payload.candidates[OrigIndex(w) + 1]

\* The list attempt() / _run_attempt() is iterating over.
PipelineOf(w) ==
  IF tasks[cur[w]].kind = "ffmpeg.search"
  THEN IF px[w].attempt = "primary" THEN CandOf(w).commands ELSE CandOf(w).fallbackCommands
  ELSE IF px[w].attempt = "primary"
  THEN tasks[cur[w]].payload.commands
  ELSE tasks[cur[w]].payload.fallback_commands

\* int((i / max(1, total)) * 100)
StepPct(i, total) == (i * 100) \div (IF total < 1 THEN 1 ELSE total)

SetLast(seq, e) == [seq EXCEPT ![Len(seq)] = e]

\* attempt(): the head of `for i, spec in enumerate(pipeline)`.  After the last
\* command attempt returns and run_pipeline reports 100 and returns its
\* result; a command without args raises ValueError; otherwise the history
\* entry is appended and the step's progress is reported.
attempt_step(w) ==
  /\ InPipeline(w)
  /\ px[w].at = "loop"
  /\ LET pl == PipelineOf(w)
         i == px[w].i
         total == Len(pl)
         entry == [index |-> i, status |-> "running", error |-> ""]
         hist == Append(px[w].history, entry)
     IN IF i >= total
        THEN /\ set_progress(w, 100, "done",
                   [ffmpeg |-> [attempt |-> px[w].attempt, history |-> px[w].history]])
             /\ outcome' = [outcome EXCEPT ![w] =
                   Returned([ok |-> TRUE, attempt |-> px[w].attempt,
                             history |-> px[w].history])]
             /\ pc' = [pc EXCEPT ![w] = "return"]
             /\ px' = [px EXCEPT ![w].at = "returned"]
        ELSE IF ~pl[i + 1].args
        THEN /\ px' = [px EXCEPT ![w].at = "handler",
                                 ![w].err = Raised("ValueError", ArgsText)]
             /\ UNCHANGED <<tasks, sunk, outcome, pc>>
        ELSE /\ set_progress(w, StepPct(i, total), "ffmpeg",
                   [ffmpeg |-> [attempt |-> px[w].attempt, history |-> hist]])
             /\ px' = [px EXCEPT ![w].at = "start", ![w].history = hist]
             /\ UNCHANGED <<outcome, pc>>
  /\ UNCHANGED <<rowlock, cur, sink, claimlog, schema, stream>>

\* _run_single_ffmpeg_command: the "start" report, then subprocess.Popen.
run_single_start(w) ==
  /\ InRunner(w)
  /\ px[w].at = "start"
  /\ set_progress(w, StepPct(px[w].i, Len(PipelineOf(w))), "ffmpeg",
        [ffmpeg |-> [step |-> px[w].i, status |-> "running"]])
  /\ px' = [px EXCEPT ![w].at = "top", ![w].proc = "running", ![w].expired = FALSE,
                      ![w].loc = RunnerLocals, ![w].io = IoStart,
                      ![w].runlog = Append(@, [attempt |-> px[w].attempt,
                                               index |-> px[w].i,
                                               status |-> "running"])]
  /\ UNCHANGED <<rowlock, pc, cur, sink, outcome, claimlog, schema, stream>>

\* The child process ends with return code rc.
proc_exit(w, rc) ==
  /\ InRunner(w)
  /\ px[w].proc = "running"
  /\ px[w].io.pend = NoPend
  /\ px' = [px EXCEPT ![w].proc = IF rc = 0 THEN "exit0" ELSE "exit1"]
  /\ UNCHANGED <<tasks, rowlock, pc, cur, sink, outcome, sunk, claimlog, schema, stream>>

\* time.monotonic() - started passes timeout_s.
deadline(w) ==
  /\ InRunner(w)
  /\ px[w].at \in {"top", "poll", "read"}
  /\ PipelineOf(w)[px[w].i + 1].timeoutMs # 0
  /\ ~px[w].expired
  /\ px' = [px EXCEPT ![w].expired = TRUE,
                      ![w].overran = @ \/ px[w].proc = "running"]
  /\ UNCHANGED <<tasks, rowlock, pc, cur, sink, outcome, sunk, claimlog, schema, stream>>

\* Mutant: the head of the loop does not compare the clock with timeout_s.
run_single_top_nocheck(w) ==
  /\ InRunner(w)
  /\ px[w].at = "top"
  /\ px' = [px EXCEPT ![w].at = "poll"]
  /\ UNCHANGED <<tasks, rowlock, pc, cur, sink, outcome, sunk, claimlog, schema, stream>>

\* The head of `while True`: past the timeout the process is killed and
\* TimeoutError is raised; else select() and the reads follow.
run_single_top(w) ==
  /\ InRunner(w)
  /\ px[w].at = "top"
  /\ IF PipelineOf(w)[px[w].i + 1].timeoutMs # 0 /\ px[w].expired
     THEN px' = [px EXCEPT ![w].at = "except",
                           ![w].proc = IF @ = "running" THEN "killed" ELSE @,
                           ![w].err = Raised("TimeoutError", TimeoutText),
                           ![w].io.pipe = NoText, ![w].io.buf = NoText,
                           ![w].io.pend = NoPend]
     ELSE px' = [px EXCEPT ![w].at = "poll"]
  /\ UNCHANGED <<tasks, rowlock, pc, cur, sink, outcome, sunk, claimlog, schema, stream>>

\* Mutant: the return code is not looked at, every exit goes on to the next step.
run_single_poll_norc(w) ==
  /\ InRunner(w)
  /\ px[w].at = "poll"
  /\ px' = [px EXCEPT ![w] =
       CASE @.proc = "running" -> [@ EXCEPT !.at = "top"]
         [] OTHER ->
              [@ EXCEPT !.at = "loop", !.i = @ + 1, !.proc = "none",
                        !.history = SetLast(@, [index |-> px[w].i, status |-> "success",
                                                error |-> ""]),
                        !.runlog = SetLast(@, [attempt |-> px[w].attempt,
                                               index |-> px[w].i,
                                               status |-> IF px[w].proc = "exit0"
                                                          THEN "success" ELSE "failed"])]]
  /\ UNCHANGED <<tasks, rowlock, pc, cur, sink, outcome, sunk, claimlog, schema, stream>>

\* code = proc.poll(): None loops again; else rc = proc.wait(), a non-zero rc
\* raises RuntimeError, rc 0 returns to attempt(), which marks the entry
\* success and goes to the next command.
run_single_poll(w) ==
  /\ InRunner(w)
  /\ px[w].at = "poll"
  /\ px' = [px EXCEPT ![w] =
       CASE @.proc = "running" -> [@ EXCEPT !.at = "top"]
         [] @.proc = "exit0" ->
              [@ EXCEPT !.at = "loop", !.i = @ + 1, !.proc = "none",
                        !.history = SetLast(@, [index |-> px[w].i, status |-> "success",
                                                error |-> ""]),
                        !.runlog = SetLast(@, [attempt |-> px[w].attempt,
                                               index |-> px[w].i,
                                               status |-> "success"])]
         [] OTHER -> [@ EXCEPT !.at = "except",
                               !.err = Raised("RuntimeError", ExitText)]]
  /\ UNCHANGED <<tasks, rowlock, pc, cur, sink, outcome, sunk, claimlog, schema, stream>>

\* ------------------------------------------------- the pipes of the child
\* stderr_lines[-4:]
TailLines == 4

LastN(seq, n) == IF Len(seq) <= n THEN seq ELSE SubSeq(seq, Len(seq) - n + 1, Len(seq))

\* The loop over `while "\n" in buf`: the non-empty lines completed in text
\* and the text after the last line end.
RECURSIVE SplitBuf(_, _, _)
SplitBuf(text, line, acc) ==
  IF text = <<>> THEN [lines |-> acc, buf |-> line]
  ELSE IF Head(text) = "nl"
  THEN SplitBuf(Tail(text), <<>>, IF line = <<>> THEN acc ELSE Append(acc, line))
  ELSE SplitBuf(Tail(text), Append(line, Head(text)), acc)

\* The record of what was written, a repeated line end kept once.
Wrote(text, c) ==
  IF c = "nl" /\ (text = <<>> \/ text[Len(text)] = "nl") THEN text ELSE Append(text, c)

\* Characters of text the child has written or is writing.
TextWritten(io) ==
  Cardinality({<<s, k>> \in StreamSet \X (1..(2 * MaxChars)) :
                 k <= Len(io.written[s]) /\ io.written[s][k] = "x"})
    + (IF io.pend.c = "x" THEN 1 ELSE 0)

\* The child calls write(s, c).  Line ends may be written without end, the
\* text is bounded.
child_write(w, s, c) ==
  /\ InRunner(w)
  /\ px[w].proc = "running"
  /\ px[w].io.pend = NoPend
  /\ c = "x" => TextWritten(px[w].io) < MaxChars
  /\ px' = [px EXCEPT ![w].io.pend = [s |-> s, c |-> c]]
  /\ UNCHANGED <<tasks, rowlock, pc, cur, sink, outcome, sunk, claimlog, schema, stream>>

\* The write returns once the pipe had room for the character; the child is
\* blocked in the call while the pipe is full.
child_write_done(w) ==
  /\ InRunner(w)
  /\ px[w].proc = "running"
  /\ px[w].io.pend # NoPend
  /\ Len(px[w].io.pipe[px[w].io.pend.s]) < PipeCap
  /\ px' = [px EXCEPT ![w].io.pipe[px[w].io.pend.s] = Append(@, px[w].io.pend.c),
                      ![w].io.written[px[w].io.pend.s] = Wrote(@, px[w].io.pend.c),
                      ![w].io.pend = NoPend]
  /\ UNCHANGED <<tasks, rowlock, pc, cur, sink, outcome, sunk, claimlog, schema, stream>>

\* select() reports a pipe that holds data or whose write end is closed.
Readable(p, s) == p.io.pipe[s] # <<>> \/ p.proc # "running"

\* rlist, _, _ = select.select([proc.stdout, proc.stderr], [], [], 0.2): the
\* readable pipes, none after 0.2 s without any.
run_single_select(w) ==
  /\ InRunner(w)
  /\ px[w].at = "poll"
  /\ px' = [px EXCEPT ![w].at = "read",
                      ![w].io.rlist = SelectSeq(Streams, LAMBDA s : Readable(px[w], s))]
  /\ UNCHANGED <<tasks, rowlock, pc, cur, sink, outcome, sunk, claimlog, schema, stream>>

\* Mutant: the pipes are left in blocking mode, read() returns at the end of
\* the stream.
run_single_recv_block(w) ==
  /\ InRunner(w)
  /\ px[w].at = "read"
  /\ px[w].io.rlist # <<>>
  /\ px[w].proc # "running"
  /\ LET s == Head(px[w].io.rlist)
         sp == SplitBuf(px[w].io.buf[s] \o px[w].io.pipe[s], <<>>, <<>>)
     IN px' = [px EXCEPT ![w].io.pipe[s] = <<>>,
                         ![w].io.buf[s] = sp.buf,
                         ![w].io.lines[s] = @ \o sp.lines,
                         ![w].io.rlist = Tail(@)]
  /\ UNCHANGED <<tasks, rowlock, pc, cur, sink, outcome, sunk, claimlog, schema, stream>>

\* One iteration of `for stream in rlist`: chunk = stream.read() takes all
\* the pipe holds without blocking (an empty chunk is skipped), the text is
\* appended to the stream's buffer and every completed, non-empty line goes
\* to handle_line, which appends it to the stream's lines.  The lines here
\* hold no "=" and match no progress pattern.
run_single_recv(w) ==
  /\ InRunner(w)
  /\ px[w].at = "read"
  /\ px[w].io.rlist # <<>>
  /\ LET s == Head(px[w].io.rlist)
         sp == SplitBuf(px[w].io.buf[s] \o px[w].io.pipe[s], <<>>, <<>>)
     IN IF px[w].io.pipe[s] = <<>>
        THEN px' = [px EXCEPT ![w].io.rlist = Tail(@)]
        ELSE px' = [px EXCEPT ![w].io.pipe[s] = <<>>,
                              ![w].io.buf[s] = sp.buf,
                              ![w].io.lines[s] = @ \o sp.lines,
                              ![w].io.rlist = Tail(@)]
  /\ UNCHANGED <<tasks, rowlock, pc, cur, sink, outcome, sunk, claimlog, schema, stream>>

\* The lines after `for line in buf.split("\n")` has handled the buffers.
Drained(io) ==
  [s \in StreamSet |->
     io.lines[s] \o SplitBuf(Append(io.buf[s], "nl"), <<>>, <<>>).lines]

\* code = proc.poll() after the reads: None goes back to the head of the
\* loop; otherwise the two buffers are drained (the pipes are not read
\* again), rc = proc.wait(), a non-zero rc raises RuntimeError carrying the
\* last lines of stderr_lines, rc 0 returns to attempt(); the finally clause
\* closes the pipes.
run_single_code(w) ==
  /\ InRunner(w)
  /\ px[w].at = "read"
  /\ px[w].io.rlist = <<>>
  /\ px' = [px EXCEPT ![w] =
       CASE @.proc = "running" -> [@ EXCEPT !.at = "top"]
         [] @.proc = "exit0" ->
              [@ EXCEPT !.at = "loop", !.i = @ + 1, !.proc = "none",
                        !.history = SetLast(@, [index |-> px[w].i, status |-> "success",
                                                error |-> ""]),
                        !.runlog = SetLast(@, [attempt |-> px[w].attempt,
                                               index |-> px[w].i,
                                               status |-> "success"]),
                        !.io.lines = Drained(px[w].io),
                        !.io.pipe = NoText, !.io.buf = NoText,
                        !.io.rc = 0]
         [] OTHER -> [@ EXCEPT !.at = "except",
                               !.err = Raised("RuntimeError", ExitText),
                               !.io.lines = Drained(px[w].io),
                               !.io.pipe = NoText, !.io.buf = NoText,
                               !.io.rc = 1,
                               !.io.tail = LastN(Drained(px[w].io)["stderr"], TailLines)]]
  /\ UNCHANGED <<tasks, rowlock, pc, cur, sink, outcome, sunk, claimlog, schema, stream>>

\* attempt(): except Exception as e: the entry is marked failed, the failure
\* is reported, and e is raised again.
attempt_except(w) ==
  /\ InPipeline(w)
  /\ px[w].at = "except"
  /\ LET hist == SetLast(px[w].history,
                    [index |-> px[w].i, status |-> "failed", error |-> px[w].err.text])
     IN /\ set_progress(w, StepPct(px[w].i, Len(PipelineOf(w))), "ffmpeg",
              [ffmpeg |-> [attempt |-> px[w].attempt, history |-> hist,
                           error |-> px[w].err.text]])
        /\ px' = [px EXCEPT ![w].at = "handler", ![w].history = hist,
                            ![w].runlog = SetLast(@, [attempt |-> px[w].attempt,
                                                      index |-> px[w].i,
                                                      status |-> "failed"])]
  /\ UNCHANGED <<rowlock, pc, cur, sink, outcome, claimlog, schema, stream>>

\* run_pipeline: except Exception: a failed primary with fallback_commands
\* starts attempt(fallback_commands, "fallback"); otherwise the failure is
\* reported (progress 100, stage "error") and the exception leaves run_pipeline.
run_pipeline_handler(w) ==
  /\ InPipeline(w)
  /\ px[w].at = "handler"
  /\ IF px[w].attempt = "primary" /\ tasks[cur[w]].payload.fallback_commands # <<>>
     THEN /\ px' = [px EXCEPT ![w].at = "loop", ![w].attempt = "fallback", ![w].i = 0,
                              ![w].history = <<>>, ![w].proc = "none",
                              ![w].expired = FALSE, ![w].err = NoOutcome]
          /\ UNCHANGED <<tasks, sunk, outcome, pc>>
     ELSE /\ set_progress(w, 100, "error", [ffmpeg |-> [error |-> px[w].err.text]])
          /\ outcome' = [outcome EXCEPT ![w] = px[w].err]
          /\ pc' = [pc EXCEPT ![w] = "raise"]
          /\ px' = [px EXCEPT ![w].at = "raised"]
  /\ UNCHANGED <<rowlock, cur, sink, claimlog, schema, stream>>

\* ------------------------------------------- the output of the child process
\* A line is the sequence of its blank-separated words; a word `key=value` is
\* Tok(key, class of the value), any other word is Word(text).  The classes:
\* "int" (120), "hms" (00:00:04.00), "x" (1.5x), "kB" (256kB),
\* "kbits" (524.3kbits/s), "dots" (1.2.3), "na" (N/A), "word" (continue).
Tok(k, v) == [eq |-> TRUE, k |-> k, v |-> v]
Word(s) == [eq |-> FALSE, k |-> s, v |-> ""]

\* Lines the process may write.
Lines ==
  {<<Tok("frame", "int")>>,
   <<Tok("frame", "int"), Tok("fps", "int")>>,
   <<Tok("out_time_ms", "int")>>,
   <<Tok("progress", "word")>>,
   <<Word("Press")>>,
   <<Tok("", "na"), Tok("frame", "int")>>,
   <<Tok("", "na"), Tok("frame", "int"), Tok("fps", "dots"), Tok("speed", "x")>>}

\* The field whose pattern (`frame=`, `fps=`, `time=`, ...) is found in a
\* word with this key: the patterns are searched for, so they match at the
\* end of a longer key.
ClassicField(k) ==
  CASE k = "frame" -> "frame"
    [] k = "fps" -> "fps"
    [] k \in {"time", "out_time"} -> "time"
    [] k = "speed" -> "speed"
    [] k \in {"size", "total_size"} -> "size"
    [] k = "bitrate" -> "bitrate"
    [] OTHER -> "none"

\* The value starts with a digit.
DigitStart(v) == v \in {"int", "hms", "x", "kB", "kbits", "dots"}

\* The value class a pattern's group and suffix match.
PatternValue(f, v) ==
  CASE f = "frame" -> DigitStart(v)
    [] f = "fps" -> DigitStart(v)
    [] f = "time" -> v = "hms"
    [] f = "speed" -> v = "x"
    [] f = "size" -> v = "kB"
    [] f = "bitrate" -> v = "kbits"
    [] OTHER -> FALSE

\* Positions of line where the pattern of field f matches.
Matches(line, f) ==
  {k \in 1..Len(line) :
     line[k].eq /\ ClassicField(line[k].k) = f /\ PatternValue(f, line[k].v)}

\* pattern.search(line) finds the first match; the field is set if the
\* conversion of its group succeeds (float("1.2.3") does not).
ClassicSet(line, f) ==
  /\ Matches(line, f) # {}
  /\ LET k == CHOOSE k \in Matches(line, f) : \A j \in Matches(line, f) : k <= j
     IN ~(f = "fps" /\ line[k].v = "dots")

FieldNames == {"frame", "fps", "time", "speed", "size", "bitrate"}

\* Mutant: one recognised field is enough.
parse_classic_progress_line_one(line) ==
  LET fields == {f \in FieldNames : ClassicSet(line, f)}
  IN IF ~\E k \in 1..Len(line) :
            line[k].eq /\ ClassicField(line[k].k) \in {"frame", "time"}
     THEN NULL
     ELSE IF Cardinality(fields) < 1 THEN NULL
     ELSE [raw |-> <<line>>, fields |-> fields]

\* _parse_classic_progress_line: None unless the line holds `frame=` or
\* `time=`; None with fewer than two fields set.
parse_classic_progress_line(line) ==
  LET fields == {f \in FieldNames : ClassicSet(line, f)}
  IN IF ~\E k \in 1..Len(line) :
            line[k].eq /\ ClassicField(line[k].k) \in {"frame", "time"}
     THEN NULL
     ELSE IF Cardinality(fields) < 2 THEN NULL
     ELSE [raw |-> <<line>>, fields |-> fields]

\* "=" in line
HasEq(line) == \E k \in 1..Len(line) : line[k].eq

FirstEq(line) == CHOOSE k \in 1..Len(line) : line[k].eq /\ \A j \in 1..(k - 1) : ~line[j].eq

\* k, v = line.split("=", 1), stripped: the key is what precedes the first
\* "=" (words before it included), the value all that follows it.
SplitKey(line) == IF FirstEq(line) = 1 THEN line[1].k ELSE "other"
SplitValue(line) ==
  [head |-> line[FirstEq(line)].v, rest |-> SubSeq(line, FirstEq(line) + 1, Len(line))]

\* float(v) succeeds.
KvFloat(val) == val.rest = <<>> /\ val.head = "int"

\* _parse_speed_value(v) is not None.
KvSpeed(val) == val.rest = <<>> /\ val.head \in {"int", "x"}

\* _parse_bitrate_kbps(v) is not None: `kbits/s` is searched for in v.
KvBitrate(val) ==
  val.head = "kbits" \/ \E k \in 1..Len(val.rest) : val.rest[k].v = "kbits"

KvSet(block, f) ==
  CASE f = "frame" -> "frame" \in DOMAIN block /\ KvFloat(block["frame"])
    [] f = "fps" -> "fps" \in DOMAIN block /\ KvFloat(block["fps"])
    [] f = "time" -> "out_time_ms" \in DOMAIN block /\ KvFloat(block["out_time_ms"])
    [] f = "speed" -> "speed" \in DOMAIN block /\ KvSpeed(block["speed"])
    [] f = "size" -> "total_size" \in DOMAIN block /\ KvFloat(block["total_size"])
    [] f = "bitrate" -> "bitrate" \in DOMAIN block /\ KvBitrate(block["bitrate"])
    [] OTHER -> FALSE

\* _parse_kv_progress_block: None for an empty block and with fewer than two
\* fields set.
parse_kv_progress_block(block, raw_lines) ==
  LET fields == {f \in FieldNames : KvSet(block, f)}
  IN IF DOMAIN block = {} THEN NULL
     ELSE IF Cardinality(fields) < 2 THEN NULL
     ELSE [raw |-> raw_lines, fields |-> fields]

\* Mutant: at most one emission per 0.2 s, whatever the raw text.
Throttled_time(loc, raw, soon) == soon

\* emit_progress(parsed, raw) returns early: less than 0.2 s after the last
\* emission and the same raw text.
Throttled(loc, raw, soon) == soon /\ raw = loc.last_raw

\* handle_line(line, which): the locals after the call, the ParsedProgress
\* handed to set_progress (NULL if none) and the grammar it was parsed with.
\* `which` selects the list the line is appended to and nothing else.
handle_line(loc, line, which, soon) ==
  IF HasEq(line) /\ SplitKey(line) # ""
  THEN LET block == (SplitKey(line) :> SplitValue(line)) @@ loc.kv_block
           raw == Append(loc.kv_raw, line)
           parsed == IF SplitKey(line) = "progress"
                     THEN parse_kv_progress_block(block, raw) ELSE NULL
           res == IF parsed = NULL THEN "none"
                  ELSE IF Throttled(loc, raw, soon) THEN "throttled" ELSE "kv"
       IN [kv_block |-> IF SplitKey(line) = "progress" THEN EmptyBlock ELSE block,
           kv_raw |-> IF SplitKey(line) = "progress" THEN <<>> ELSE raw,
           last_raw |-> IF res = "kv" THEN raw ELSE loc.last_raw,
           read |-> Append(loc.read, [line |-> line, res |-> res]),
           parsed |-> IF res = "kv" THEN parsed ELSE NULL]
  ELSE LET parsed == parse_classic_progress_line(line)
           res == IF parsed = NULL THEN "none"
                  ELSE IF Throttled(loc, <<line>>, soon) THEN "throttled" ELSE "classic"
       IN [kv_block |-> loc.kv_block,
           kv_raw |-> loc.kv_raw,
           last_raw |-> IF res = "classic" THEN <<line>> ELSE loc.last_raw,
           read |-> Append(loc.read, [line |-> line, res |-> res]),
           parsed |-> IF res = "classic" THEN parsed ELSE NULL]

\* --------------------------------------------------- tasks/ffmpeg_search.py
\* An optional number of a candidate (encodeCount, score) that is present.
Num(n) == [num |-> n]

Has(a, x) == \E k \in 1..Len(a) : a[k] = x

\* a.index(x): the first position of x (1-based here).
Index(a, x) == CHOOSE k \in 1..Len(a) : a[k] = x /\ \A j \in 1..(k - 1) : a[j] # x

\* str.lower() on the argument words used here.
Lower(s) == IF s = "COPY" THEN "copy" ELSE s

\* "copy" in word.lower()
ContainsCopy(s) == Lower(s) \in {"copy", "copy.mp4"}

FilterFlags == {"-vf", "-filter_complex", "-lavfi", "-af"}
CodecFlags ==
  {"-c:v", "-codec:v", "-vcodec", "-c:a", "-codec:a", "-acodec", "-c:s", "-codec:s", "-scodec"}
ShortCodecFlags == {"-c:v", "-vcodec", "-c:a", "-acodec", "-c:s", "-scodec"}

\* The word after the first occurrence of flag f, lower-cased, is v.
NextIs(a, f, v) == Index(a, f) < Len(a) /\ Lower(a[Index(a, f) + 1]) = v

\* The word after the first occurrence of flag f exists and is not "copy".
NextIsNotCopy(a, f) == Index(a, f) < Len(a) /\ Lower(a[Index(a, f) + 1]) # "copy"

infer_command_requires_encode(a) ==
  IF \E f \in FilterFlags : Has(a, f) THEN TRUE
  ELSE IF Has(a, "-c") /\ NextIs(a, "-c", "copy") THEN FALSE
  ELSE IF \E f \in CodecFlags : Has(a, f) /\ NextIsNotCopy(a, f) THEN TRUE
  ELSE IF ~Has(a, "-c") /\ \A f \in ShortCodecFlags : ~Has(a, f) THEN TRUE
  ELSE IF /\ \E k \in 1..Len(a) : ContainsCopy(a[k])
          /\ ~Has(a, "-vf") /\ ~Has(a, "-filter_complex") /\ ~Has(a, "-af")
       THEN FALSE
  ELSE TRUE

\* An explicit encodeCount >= 0 is taken as given; else the commands that
\* require an encode are counted.
infer_candidate_encode_count(cand) ==
  IF cand.encodeCount # NULL /\ cand.encodeCount.num >= 0
  THEN cand.encodeCount.num
  ELSE Cardinality({k \in 1..Len(cand.commands) :
                      infer_command_requires_encode(cand.commands[k].args)})

\* float(score) and float("inf").
Finite(n) == [inf |-> FALSE, val |-> n]
Inf == [inf |-> TRUE, val |-> 0]
FloatLess(x, y) == ~x.inf /\ (y.inf \/ x.val < y.val)

\* Mutant: the encode count is left out of the key.
sort_key_noencode(idx, cand) ==
  <<0,
    IF cand.score # NULL THEN 0 ELSE 1,
    IF cand.score # NULL THEN Finite(cand.score.num) ELSE Inf,
    idx>>

\* (encode_count, has_score, score_val, idx)
sort_key(idx, cand) ==
  <<infer_candidate_encode_count(cand),
    IF cand.score # NULL THEN 0 ELSE 1,
    IF cand.score # NULL THEN Finite(cand.score.num) ELSE Inf,
    idx>>

\* Python's `<` on two such tuples.
TupleLess(a, b) ==
  \/ a[1] < b[1]
  \/ a[1] = b[1] /\ a[2] < b[2]
  \/ a[1] = b[1] /\ a[2] = b[2] /\ FloatLess(a[3], b[3])
  \/ a[1] = b[1] /\ a[2] = b[2] /\ a[3] = b[3] /\ a[4] < b[4]

\* x is placed behind every element of the sorted list r whose key is not
\* greater than its own (sorted() is stable).
InsertSorted(r, x, cands) ==
  LET kx == sort_key(x, cands[x + 1])
      pos == Cardinality({k \in 1..Len(r) : ~TupleLess(kx, sort_key(r[k], cands[r[k] + 1]))})
  IN SubSeq(r, 1, pos) \o <<x>> \o SubSeq(r, pos + 1, Len(r))

\* sorted(list(enumerate(candidates)), key=_sort_key), as the original
\* indices (0-based) of the first n candidates in sorted order.
RECURSIVE SortedEnumerate(_, _)
SortedEnumerate(cands, n) ==
  IF n = 0 THEN <<>> ELSE InsertSorted(SortedEnumerate(cands, n - 1), n - 1, cands)

\* Argument lists of ffmpeg commands: a stream copy, an encode, none.
CopyArgs == <<"-i", "in.mp4", "-c", "COPY", "out.mp4">>
EncodeArgs == <<"-i", "in.mp4", "-c:v", "libx264", "out.mp4">>
CopyCommand == [args |-> CopyArgs, timeoutMs |-> 0]
EncodeCommand == [args |-> EncodeArgs, timeoutMs |-> 0]

\* Candidates that differ in what the order looks at.
SortCandidates ==
  {[encodeCount |-> Num(e), score |-> s, commands |-> <<CopyCommand>>,
    fallbackCommands |-> <<>>] : e \in 0..2, s \in {NULL, Num(0), Num(1)}}
  \cup
  {[encodeCount |-> NULL, score |-> s, commands |-> <<EncodeCommand>>,
    fallbackCommands |-> <<>>] : s \in {NULL, Num(0), Num(1)}}

\* Candidates that differ in what is run for them.
RunCandidates ==
  {[encodeCount |-> Num(e), score |-> NULL, commands |-> <<CopyCommand>>,
    fallbackCommands |-> f] : e \in 0..1, f \in {<<>>, <<EncodeCommand>>}}
  \cup
  {[encodeCount |-> NULL, score |-> NULL, commands |-> c, fallbackCommands |-> <<>>] :
     c \in {<<>>, <<CopyCommand, EncodeCommand>>}}

\* Options of an ffmpeg command line that the inference looks at, each a flag
\* with its value, and the output files.
Options ==
  {<<"-c", "copy">>, <<"-c", "libx264">>, <<"-c:v", "copy">>, <<"-c:v", "libx264">>,
   <<"-codec:a", "copy">>, <<"-c:a", "aac">>, <<"-vf", "scale=640:-2">>}
Outputs == {"out.mp4", "copy.mp4"}

RECURSIVE Flatten(_)
Flatten(s) == IF s = <<>> THEN <<>> ELSE Head(s) \o Flatten(Tail(s))

\* args of a command: the input, up to MaxOpts options, the output.
ArgLists ==
  {<<"-i", "in.mp4">> \o Flatten(o) \o <<out>> :
     o \in SeqsUpTo(Options, MaxOpts), out \in Outputs}

\* Candidates whose encode count is inferred from one command.
InferCandidates ==
  {[encodeCount |-> NULL, score |-> NULL,
    commands |-> <<[args |-> a, timeoutMs |-> 0]>>, fallbackCommands |-> <<>>] :
     a \in ArgLists}

EmptyText == "candidates is empty"
JobIdText == "name 'job_id' is not defined"

\* ffmpeg_ctx as run_search builds it for the current candidate.
SearchCtx(w) ==
  [search |-> [candidateIndex |-> px[w].oi, candidateOrigIndex |-> OrigIndex(w)],
   searchAttempts |-> px[w].attempts]

\* ffmpeg_ctx after _run_attempt stored its attempt name and history in it.
AttemptCtx(w, hist) ==
  [search |-> [candidateIndex |-> px[w].oi, candidateOrigIndex |-> OrigIndex(w)],
   searchAttempts |-> px[w].attempts,
   attempt |-> px[w].attempt, history |-> hist]

\* run_search up to the sort: an empty list raises ValueError.
run_search_start(w) ==
  /\ InSearch(w)
  /\ px[w].at = "sort"
  /\ LET cands == tasks[cur[w]].payload.candidates
     IN IF cands = <<>>
        THEN /\ outcome' = [outcome EXCEPT ![w] = Raised("ValueError", EmptyText)]
             /\ pc' = [pc EXCEPT ![w] = "raise"]
             /\ px' = [px EXCEPT ![w].at = "raised"]
        ELSE /\ px' = [px EXCEPT ![w].at = "next",
                                 ![w].ordered = SortedEnumerate(cands, Len(cands))]
             /\ UNCHANGED <<outcome, pc>>
  /\ UNCHANGED <<tasks, rowlock, cur, sink, sunk, claimlog, schema, stream>>

\* The head of `for order_index, (orig_index, cand) in enumerate(ordered)`:
\* a candidate without commands is passed over; else the "try" report is made
\* and _run_attempt(primary) entered.  After the last candidate the arguments
\* of the final set_progress are evaluated, and `job_id` is not a name of
\* run_search: NameError is raised before anything is reported.
run_search_next(w) ==
  /\ InSearch(w)
  /\ px[w].at = "next"
  /\ IF px[w].oi >= Len(px[w].ordered)
     THEN /\ outcome' = [outcome EXCEPT ![w] = Raised("NameError", JobIdText)]
          /\ pc' = [pc EXCEPT ![w] = "raise"]
          /\ px' = [px EXCEPT ![w].at = "raised"]
          /\ UNCHANGED <<tasks, sunk>>
     ELSE IF CandOf(w).commands = <<>>
     THEN /\ px' = [px EXCEPT ![w].oi = @ + 1]
          /\ UNCHANGED <<tasks, sunk, outcome, pc>>
     ELSE /\ set_progress(w, StepPct(px[w].oi, Len(px[w].ordered)), "ffmpeg-search",
                [ffmpeg |-> SearchCtx(w)])
          /\ px' = [px EXCEPT ![w].at = "loop", ![w].attempt = "primary", ![w].i = 0,
                              ![w].history = <<>>, ![w].proc = "none",
                              ![w].expired = FALSE, ![w].err = NoOutcome]
          /\ UNCHANGED <<outcome, pc>>
  /\ UNCHANGED <<rowlock, cur, sink, claimlog, schema, stream>>

\* An entry of the attempts log.
AttemptEntry(w, status, error) ==
  [origIndex |-> OrigIndex(w), orderIndex |-> px[w].oi, status |-> status,
   usedFallback |-> (status = "success" /\ px[w].attempt = "fallback"),
   error |-> error]

\* _run_attempt: the head of `for i, spec in enumerate(pipeline)`.  After the
\* last command _run_attempt returns and run_search appends the success
\* entry, reports 100 and returns its result.
run_attempt_step(w) ==
  /\ InSearch(w)
  /\ px[w].at = "loop"
  /\ LET pl == PipelineOf(w)
         i == px[w].i
         total == Len(pl)
         entry == [index |-> i, status |-> "running", error |-> ""]
         hist == Append(px[w].history, entry)
         log == Append(px[w].attempts, AttemptEntry(w, "success", ""))
         chosen == [label |-> OrigIndex(w), score |-> CandOf(w).score,
                    encodeCount |-> infer_candidate_encode_count(CandOf(w))]
         res == [attempt |-> px[w].attempt, history |-> px[w].history]
     IN IF i >= total
        THEN /\ set_progress(w, 100, "done",
                   [ffmpeg |-> [search |-> SearchCtx(w).search, searchAttempts |-> log,
                                attempt |-> px[w].attempt, history |-> px[w].history,
                                chosen |-> chosen]])
             /\ outcome' = [outcome EXCEPT ![w] =
                   Returned([ok |-> TRUE, chosen |-> chosen, result |-> res,
                             attempts |-> log])]
             /\ pc' = [pc EXCEPT ![w] = "return"]
             /\ px' = [px EXCEPT ![w].at = "returned", ![w].attempts = log]
        ELSE IF pl[i + 1].args = <<>>
        THEN /\ px' = [px EXCEPT ![w].at = "handler",
                                 ![w].err = Raised("ValueError", ArgsText)]
             /\ UNCHANGED <<tasks, sunk, outcome, pc>>
        ELSE /\ set_progress(w, StepPct(i, total), "ffmpeg", [ffmpeg |-> AttemptCtx(w, hist)])
             /\ px' = [px EXCEPT ![w].at = "start", ![w].history = hist]
             /\ UNCHANGED <<outcome, pc>>
  /\ UNCHANGED <<rowlock, cur, sink, claimlog, schema, stream>>

\* _run_attempt: except Exception as e: the entry is marked failed, the
\* failure is reported, and e is raised again.
run_attempt_except(w) ==
  /\ InSearch(w)
  /\ px[w].at = "except"
  /\ LET hist == SetLast(px[w].history,
                    [index |-> px[w].i, status |-> "failed", error |-> px[w].err.text])
     IN /\ set_progress(w, StepPct(px[w].i, Len(PipelineOf(w))), "ffmpeg",
              [ffmpeg |-> AttemptCtx(w, hist) @@ [error |-> px[w].err.text]])
        /\ px' = [px EXCEPT ![w].at = "handler", ![w].history = hist,
                            ![w].runlog = SetLast(@, [attempt |-> px[w].attempt,
                                                      index |-> px[w].i,
                                                      status |-> "failed"])]
  /\ UNCHANGED <<rowlock, pc, cur, sink, outcome, claimlog, schema, stream>>

\* Mutant: a failed primary goes on to the next candidate, the candidate's
\* fallbackCommands are not tried.
run_search_handler_nofallback(w) ==
  /\ InSearch(w)
  /\ px[w].at = "handler"
  /\ LET log == Append(px[w].attempts, AttemptEntry(w, "failed", px[w].err.text))
     IN /\ set_progress(w, StepPct(px[w].oi + 1, Len(px[w].ordered)), "ffmpeg-search",
               [ffmpeg |-> [search |-> SearchCtx(w).search, searchAttempts |-> log,
                            attempt |-> px[w].attempt, history |-> px[w].history,
                            error |-> px[w].err.text]])
        /\ px' = [px EXCEPT ![w].at = "next", ![w].oi = @ + 1, ![w].attempts = log,
                            ![w].runs = Append(@, [cand |-> OrigIndex(w),
                                                   log |-> px[w].runlog]),
                            ![w].runlog = <<>>]
  /\ UNCHANGED <<rowlock, pc, cur, sink, outcome, claimlog, schema, stream>>
\* run_search: except Exception: a failed primary of a candidate with
\* fallbackCommands starts _run_attempt(fallback); otherwise the failed entry
\* is appended, "candidate failed" is reported and the loop goes on.
run_search_handler(w) ==
  /\ InSearch(w)
  /\ px[w].at = "handler"
  /\ IF px[w].attempt = "primary" /\ CandOf(w).fallbackCommands # <<>>
     THEN /\ px' = [px EXCEPT ![w].at = "loop", ![w].attempt = "fallback", ![w].i = 0,
                              ![w].history = <<>>, ![w].proc = "none",
                              ![w].expired = FALSE, ![w].err = NoOutcome]
          /\ UNCHANGED <<tasks, sunk>>
     ELSE LET log == Append(px[w].attempts, AttemptEntry(w, "failed", px[w].err.text))
          IN /\ set_progress(w, StepPct(px[w].oi + 1, Len(px[w].ordered)), "ffmpeg-search",
                    [ffmpeg |-> [search |-> SearchCtx(w).search, searchAttempts |-> log,
                                 attempt |-> px[w].attempt, history |-> px[w].history,
                                 error |-> px[w].err.text]])
             /\ px' = [px EXCEPT ![w].at = "next", ![w].oi = @ + 1, ![w].attempts = log,
                                 ![w].runs = Append(@, [cand |-> OrigIndex(w),
                                                        log |-> px[w].runlog]),
                                 ![w].runlog = <<>>]
  /\ UNCHANGED <<rowlock, pc, cur, sink, outcome, claimlog, schema, stream>>
\* ------------------------------ _run_single_ffmpeg_command: the reads
\* ffmpeg_context as the caller of _run_single_ffmpeg_command passes it.
RunnerCtx(w) ==
  IF tasks[cur[w]].kind = "ffmpeg.search"
  THEN AttemptCtx(w, px[w].history)
  ELSE [attempt |-> px[w].attempt, history |-> px[w].history]

\* The loop of _run_single_ffmpeg_command between the timeout test and
\* proc.poll(): a line read from stdout or stderr goes to handle_line;
\* emit_progress, unless throttled, reports it.  The commands here carry no
\* durationHintSeconds, so _pct_from_time is None and pct is the step's base.
run_single_read(w, line, which, soon) ==
  /\ InRunner(w)
  /\ px[w].at = "poll"
  /\ Len(px[w].loc.read) < MaxLines
  /\ LET h == handle_line(px[w].loc, line, which, soon)
     IN /\ IF h.parsed # NULL
           THEN set_progress(w, StepPct(px[w].i, Len(PipelineOf(w))), "ffmpeg",
                  [ffmpeg |-> [step |-> px[w].i, status |-> "running",
                               progress |-> h.parsed] @@ RunnerCtx(w)])
           ELSE UNCHANGED <<tasks, sunk>>
        /\ px' = [px EXCEPT ![w].loc = [kv_block |-> h.kv_block, kv_raw |-> h.kv_raw,
                                        last_raw |-> h.last_raw, read |-> h.read]]
  /\ UNCHANGED <<rowlock, pc, cur, sink, outcome, claimlog, schema, stream>>

\* ---------------------------------------------------- queue.py: ensure_schema
\* sorted(migrations_dir.glob("*.sql")): the scripts in filename order, each
\* with its stem and whether its text is blank.
Migrations ==
  <<[version |-> "0001_init", blank |-> FALSE],
    [version |-> "0002_notes", blank |-> TRUE],
    [version |-> "0003_index", blank |-> FALSE]>>

\* The stems of the scripts that hold statements.
Versions ==
  {Migrations[i].version : i \in {j \in 1..Len(Migrations) : ~Migrations[j].blank}}

SeqToSet(s) == {s[i] : i \in 1..Len(s)}

\* The sequences over S without repetition, of every length.
RECURSIVE Orderings(_)
Orderings(S) ==
  IF S = {} THEN {<<>>}
  ELSE UNION {{Append(o, x) : o \in Orderings(S \ {x})} : x \in S}

\* A store every script was applied to by an earlier start.
SchemaDone ==
  [lock |-> 0, table |-> TRUE, before |-> Versions,
   ledger |-> <<"0001_init", "0003_index">>, ran |-> <<>>]

\* ensure_schema entered with the connection open: nothing read or run yet.
SchemaLocals == [at |-> "schema", applied |-> {}, i |-> 0, ran |-> <<>>, created |-> FALSE]

\* Mutant: ensure_schema without `SELECT pg_advisory_lock(...)`.
pg_advisory_lock_none(w) ==
  /\ pc[w] = "boot"
  /\ pc' = [pc EXCEPT ![w] = "select"]
  /\ px' = [px EXCEPT ![w] = SchemaLocals]
  /\ UNCHANGED <<tasks, rowlock, cur, sink, outcome, sunk, claimlog, schema, stream>>

\* SELECT pg_advisory_lock(hashtext(...)): returns once no other session holds
\* the lock.
pg_advisory_lock(w) ==
  /\ pc[w] = "boot"
  /\ schema.lock = 0
  /\ schema' = [schema EXCEPT !.lock = w]
  /\ pc' = [pc EXCEPT ![w] = "select"]
  /\ px' = [px EXCEPT ![w] = SchemaLocals]
  /\ UNCHANGED <<tasks, rowlock, cur, sink, outcome, sunk, claimlog, stream>>

\* CREATE TABLE IF NOT EXISTS schema_migrations, then SELECT version: the rows
\* committed so far (READ COMMITTED), none when the table is created here.
select_applied(w) ==
  /\ pc[w] = "select"
  /\ px' = [px EXCEPT ![w] = [@ EXCEPT !.applied = SeqToSet(schema.ledger),
                                       !.created = ~schema.table]]
  /\ pc' = [pc EXCEPT ![w] = "scripts"]
  /\ UNCHANGED <<tasks, rowlock, cur, sink, outcome, sunk, claimlog, schema, stream>>

\* One iteration of `for sql_file in sorted(...)`: a version in `applied` and
\* a blank script are passed over; else the script is executed and its
\* version inserted, both in the open transaction.
migration_step(w) ==
  /\ pc[w] = "scripts"
  /\ px[w].i < Len(Migrations)
  /\ LET m == Migrations[px[w].i + 1] IN
       px' = [px EXCEPT ![w] =
                [@ EXCEPT !.i = @ + 1,
                          !.ran = IF m.version \in px[w].applied \/ m.blank
                                  THEN @ ELSE Append(@, m.version)]]
  /\ UNCHANGED <<tasks, rowlock, pc, cur, sink, outcome, sunk, claimlog, schema, stream>>

\* The rows of `INSERT ... ON CONFLICT DO NOTHING` that are new to the ledger.
Inserted(ledger, versions) ==
  SelectSeq(versions, LAMBDA v : v \notin SeqToSet(ledger))

\* conn.commit() after the loop: the table, the scripts' effects and the
\* ledger rows become visible together.
migrations_commit(w) ==
  /\ pc[w] = "scripts"
  /\ px[w].i = Len(Migrations)
  /\ schema' = [schema EXCEPT !.table = TRUE,
                              !.ran = @ \o px[w].ran,
                              !.ledger = @ \o Inserted(@, px[w].ran)]
  /\ pc' = [pc EXCEPT ![w] = "unlock"]
  /\ UNCHANGED <<tasks, rowlock, cur, sink, outcome, px, sunk, claimlog, stream>>

\* SELECT pg_advisory_unlock(...); the connection is closed and ensure_schema
\* returns.
pg_advisory_unlock(w) ==
  /\ pc[w] = "unlock"
  /\ schema' = [schema EXCEPT !.lock = IF @ = w THEN 0 ELSE @]
  /\ pc' = [pc EXCEPT ![w] = "idle"]
  /\ px' = [px EXCEPT ![w] = NoPx]
  /\ UNCHANGED <<tasks, rowlock, cur, sink, outcome, sunk, claimlog, stream>>

\* A statement of ensure_schema raises, or the process dies: `with
\* _connect(ctx) as conn` rolls the open transaction back and closes the
\* session, which releases its advisory lock.
ensure_schema_raise(w) ==
  /\ pc[w] \in {"select", "scripts", "unlock"}
  /\ schema' = [schema EXCEPT !.lock = IF @ = w THEN 0 ELSE @]
  /\ pc' = [pc EXCEPT ![w] = "crashed"]
  /\ px' = [px EXCEPT ![w] = NoPx]
  /\ UNCHANGED <<tasks, rowlock, cur, sink, outcome, sunk, claimlog, stream>>

\* ------------------------------------------------------------------ main.py
\* task_status(row): the snapshot GET /api/tasks/{id} and the event stream send.
task_status(row) ==
  [status |-> row.status, progress |-> row.progress, stage |-> row.stage,
   meta |-> row.meta,
   result |-> IF row.status = "finished" THEN JsonLoads(row.result) ELSE NULL,
   error |-> IF row.status = "failed"
             THEN (IF row.error # NULL THEN row.error
                   ELSE IF "error" \in DOMAIN row.meta THEN row.meta.error
                   ELSE Text("failed"))
             ELSE NULL]

\* task_events.gen: seq = int(row.get("seq") or meta.get("seq") or 0).
SeqOf(row) ==
  IF row.seq # 0 THEN row.seq
  ELSE IF "seq" \in DOMAIN row.meta /\ row.meta.seq # 0 THEN row.meta.seq
  ELSE 0

\* An event of the stream, with the seq the generator had computed when it
\* was sent (-1 for the error event, which has no row).
Event(type, seq, data) == [type |-> type, seq |-> seq, data |-> data]

\* Mutant: the snapshot is sent at every poll.
Changed_always(seq, last_seq) == TRUE

\* task_events.gen: `if seq != last_seq`.
Changed(seq, last_seq) == seq # last_seq

\* Mutant: only `finished` ends the stream.
TerminalEvents_done(row, seq) ==
  IF row.status = "finished" THEN <<Event("done", seq, task_status(row))>>
  ELSE <<>>

\* task_events.gen: the event sent for a finished or failed row, after which
\* the generator returns.
TerminalEvents(row, seq) ==
  IF row.status = "finished" THEN <<Event("done", seq, task_status(row))>>
  ELSE IF row.status = "failed" THEN <<Event("failed", seq, task_status(row))>>
  ELSE <<>>

\* An id no row has.
UnknownId == 0

\* GET /api/tasks/{task_id}/events: the generator starts with last_seq = -1.
task_events(id) ==
  /\ stream = NoStream
  /\ stream' = [at |-> "poll", id |-> id, last_seq |-> -1, events |-> <<>>]
  /\ UNCHANGED <<tasks, rowlock, pc, cur, sink, outcome, px, sunk, claimlog, schema>>

\* One iteration of `while True` in gen: fetch_task; for a missing row the
\* error event and return; else the snapshot when seq changed, the terminal
\* event and return for a finished or failed row, else sleep(0.5) and again.
task_events_poll ==
  /\ stream.at = "poll"
  /\ IF stream.id \notin 1..Len(tasks)
     THEN stream' = [stream EXCEPT !.events = Append(@, Event("error", -1, NULL)),
                                   !.at = "end"]
     ELSE LET row == tasks[stream.id]
              seq == SeqOf(row)
              snapshot == IF Changed(seq, stream.last_seq)
                          THEN <<Event("progress", seq, task_status(row))>>
                          ELSE <<>>
              last == TerminalEvents(row, seq)
          IN stream' = [stream EXCEPT
                          !.last_seq = IF Changed(seq, stream.last_seq) THEN seq ELSE @,
                          !.events = @ \o snapshot \o last,
                          !.at = IF last # <<>> THEN "end" ELSE "poll"]
  /\ UNCHANGED <<tasks, rowlock, pc, cur, sink, outcome, px, sunk, claimlog, schema>>

\* --------------------------------------------------------- the claim loop
Init ==
  /\ tasks = <<>>
  /\ rowlock = [w \in Workers |-> 0]
  /\ pc = [w \in Workers |-> "idle"]
  /\ cur = [w \in Workers |-> 0]
  /\ sink = [w \in Workers |-> 0]
  /\ outcome = [w \in Workers |-> NoOutcome]
  /\ px = [w \in Workers |-> NoPx]
  /\ sunk = 0
  /\ claimlog = [t \in TaskIds |-> <<>>]
  /\ schema = SchemaDone
  /\ stream = NoStream

Next ==
  \/ \E k \in EnqueuedKinds : enqueue(k, NULL)
  \/ \E w \in Workers : claim_next_task(w)
  \/ \E w \in Workers : claim_commit(w)
  \/ \E w \in Workers : bind_progress(w)
  \/ \E w \in Workers : \E p \in ProgressInputs : exec_set_progress(w, p)
  \/ \E w \in Workers : exec_return(w)
  \/ \E w \in Workers : \E e \in ErrorTexts : exec_raise(w, e)
  \/ \E w \in Workers : unknown_kind(w)
  \/ \E w \in Workers : run_one_finish(w)
  \/ \E w \in Workers : run_one_except(w)
  \/ \E w \in Workers : unbind_progress(w)

Spec == Init /\ [][Next]_vars

\* ------------------------------------------------- one task, of every kind
InitOne ==
  /\ \E k \in Kinds :
       \E pl \in (IF k = "ffmpeg.pipeline" THEN PipelinePayloads ELSE {NULL}) :
         tasks = <<NewRow(k, pl)>>
  /\ rowlock = [w \in Workers |-> 0]
  /\ pc = [w \in Workers |-> "idle"]
  /\ cur = [w \in Workers |-> 0]
  /\ sink = [w \in Workers |-> 0]
  /\ outcome = [w \in Workers |-> NoOutcome]
  /\ px = [w \in Workers |-> NoPx]
  /\ sunk = 0
  /\ claimlog = [t \in TaskIds |-> <<>>]
  /\ schema = SchemaDone
  /\ stream = NoStream

NextOne ==
  \/ \E w \in Workers : claim_next_task(w)
  \/ \E w \in Workers : claim_commit(w)
  \/ \E w \in Workers : bind_progress(w)
  \/ \E w \in Workers : \E p \in ProgressInputs : exec_set_progress(w, p)
  \/ \E w \in Workers : exec_return(w)
  \/ \E w \in Workers : \E e \in ErrorTexts : exec_raise(w, e)
  \/ \E w \in Workers : unknown_kind(w)
  \/ \E w \in Workers : attempt_step(w)
  \/ \E w \in Workers : run_single_start(w)
  \/ \E w \in Workers : \E rc \in {0, 1} : proc_exit(w, rc)
  \/ \E w \in Workers : deadline(w)
  \/ \E w \in Workers : run_single_top(w)
  \/ \E w \in Workers : run_single_poll(w)
  \/ \E w \in Workers : attempt_except(w)
  \/ \E w \in Workers : run_pipeline_handler(w)
  \/ \E w \in Workers : run_one_finish(w)
  \/ \E w \in Workers : run_one_except(w)
  \/ \E w \in Workers : unbind_progress(w)

SpecOne == InitOne /\ [][NextOne]_vars

\* ------------------------------------- one search task, up to the sort
InitSort ==
  /\ \E c \in SeqsUpTo(SortCandidates, MaxCands) :
       tasks = <<NewRow("ffmpeg.search", [candidates |-> c])>>
  /\ rowlock = [w \in Workers |-> 0]
  /\ pc = [w \in Workers |-> "idle"]
  /\ cur = [w \in Workers |-> 0]
  /\ sink = [w \in Workers |-> 0]
  /\ outcome = [w \in Workers |-> NoOutcome]
  /\ px = [w \in Workers |-> NoPx]
  /\ sunk = 0
  /\ claimlog = [t \in TaskIds |-> <<>>]
  /\ schema = SchemaDone
  /\ stream = NoStream

NextSort ==
  \/ \E w \in Workers : claim_next_task(w)
  \/ \E w \in Workers : claim_commit(w)
  \/ \E w \in Workers : bind_progress(w)
  \/ \E w \in Workers : run_search_start(w)

SpecSort == InitSort /\ [][NextSort]_vars

\* ------------------------------------------------------- one search task
InitSearch ==
  /\ \E c \in SeqsUpTo(RunCandidates, MaxCands - 1) :
       tasks = <<NewRow("ffmpeg.search", [candidates |-> c])>>
  /\ rowlock = [w \in Workers |-> 0]
  /\ pc = [w \in Workers |-> "idle"]
  /\ cur = [w \in Workers |-> 0]
  /\ sink = [w \in Workers |-> 0]
  /\ outcome = [w \in Workers |-> NoOutcome]
  /\ px = [w \in Workers |-> NoPx]
  /\ sunk = 0
  /\ claimlog = [t \in TaskIds |-> <<>>]
  /\ schema = SchemaDone
  /\ stream = NoStream

NextSearch ==
  \/ \E w \in Workers : claim_next_task(w)
  \/ \E w \in Workers : claim_commit(w)
  \/ \E w \in Workers : bind_progress(w)
  \/ \E w \in Workers : run_search_start(w)
  \/ \E w \in Workers : run_search_next(w)
  \/ \E w \in Workers : run_attempt_step(w)
  \/ \E w \in Workers : run_single_start(w)
  \/ \E w \in Workers : \E rc \in {0, 1} : proc_exit(w, rc)
  \/ \E w \in Workers : run_single_top(w)
  \/ \E w \in Workers : run_single_poll(w)
  \/ \E w \in Workers : run_attempt_except(w)
  \/ \E w \in Workers : run_search_handler(w)
  \/ \E w \in Workers : run_one_finish(w)
  \/ \E w \in Workers : run_one_except(w)
  \/ \E w \in Workers : unbind_progress(w)

SpecSearch == InitSearch /\ [][NextSearch]_vars

\* ------------------------------ one task, and set_progress called unbound
InitChannel ==
  /\ tasks = <<NewRow("demo.sleep", NULL)>>
  /\ rowlock = [w \in Workers |-> 0]
  /\ pc = [w \in Workers |-> "idle"]
  /\ cur = [w \in Workers |-> 0]
  /\ sink = [w \in Workers |-> 0]
  /\ outcome = [w \in Workers |-> NoOutcome]
  /\ px = [w \in Workers |-> NoPx]
  /\ sunk = 0
  /\ claimlog = [t \in TaskIds |-> <<>>]
  /\ schema = SchemaDone
  /\ stream = NoStream

NextChannel ==
  \/ \E w \in Workers : claim_next_task(w)
  \/ \E w \in Workers : claim_commit(w)
  \/ \E w \in Workers : bind_progress(w)
  \/ \E w \in Workers : \E p \in ProgressInputs : exec_set_progress(w, p)
  \/ \E w \in Workers : exec_return(w)
  \/ \E w \in Workers : \E e \in ErrorTexts : exec_raise(w, e)
  \/ \E w \in Workers : run_one_finish(w)
  \/ \E w \in Workers : run_one_except(w)
  \/ \E w \in Workers : unbind_progress(w)
  \/ \E w \in Workers : \E a \in ProgressArgs : call_set_progress(w, a)
  \/ \E w \in Workers : set_progress_return(w)

SpecChannel == InitChannel /\ [][NextChannel]_vars

\* ------------------------- one pipeline task, the output of its process
InitRunner ==
  /\ tasks = <<NewRow("ffmpeg.pipeline",
                      [commands |-> <<[args |-> TRUE, timeoutMs |-> 0]>>,
                       fallback_commands |-> <<>>])>>
  /\ rowlock = [w \in Workers |-> 0]
  /\ pc = [w \in Workers |-> "idle"]
  /\ cur = [w \in Workers |-> 0]
  /\ sink = [w \in Workers |-> 0]
  /\ outcome = [w \in Workers |-> NoOutcome]
  /\ px = [w \in Workers |-> NoPx]
  /\ sunk = 0
  /\ claimlog = [t \in TaskIds |-> <<>>]
  /\ schema = SchemaDone
  /\ stream = NoStream

NextRunner ==
  \/ \E w \in Workers : claim_next_task(w)
  \/ \E w \in Workers : claim_commit(w)
  \/ \E w \in Workers : bind_progress(w)
  \/ \E w \in Workers : attempt_step(w)
  \/ \E w \in Workers : run_single_start(w)
  \/ \E w \in Workers : \E rc \in {0, 1} : proc_exit(w, rc)
  \/ \E w \in Workers : run_single_top(w)
  \/ \E w \in Workers : \E line \in Lines : \E which \in {"stdout", "stderr"} :
       \E soon \in BOOLEAN : run_single_read(w, line, which, soon)
  \/ \E w \in Workers : run_single_poll(w)
  \/ \E w \in Workers : attempt_except(w)
  \/ \E w \in Workers : run_pipeline_handler(w)
  \/ \E w \in Workers : run_one_finish(w)
  \/ \E w \in Workers : run_one_except(w)
  \/ \E w \in Workers : unbind_progress(w)

SpecRunner == InitRunner /\ [][NextRunner]_vars

\* ===================================================================== claims
\* ------------------------------------------- instances starting together
\* The store as earlier starts left it: no ledger table yet, or a ledger with
\* some of the scripts, in any order of insertion.
InitSchema ==
  /\ tasks = <<>>
  /\ rowlock = [w \in Workers |-> 0]
  /\ pc = [w \in Workers |-> "boot"]
  /\ cur = [w \in Workers |-> 0]
  /\ sink = [w \in Workers |-> 0]
  /\ outcome = [w \in Workers |-> NoOutcome]
  /\ px = [w \in Workers |-> NoPx]
  /\ sunk = 0
  /\ claimlog = [t \in TaskIds |-> <<>>]
  /\ \E table \in BOOLEAN :
       \E b \in (IF table THEN SUBSET Versions ELSE {{}}) :
         \E l \in Orderings(b) :
           schema = [lock |-> 0, table |-> table, before |-> b, ledger |-> l, ran |-> <<>>]
  /\ stream = NoStream

NextSchema ==
  \/ \E w \in Workers : pg_advisory_lock(w)
  \/ \E w \in Workers : select_applied(w)
  \/ \E w \in Workers : migration_step(w)
  \/ \E w \in Workers : migrations_commit(w)
  \/ \E w \in Workers : pg_advisory_unlock(w)
  \/ \E w \in Workers : ensure_schema_raise(w)

SpecSchema == InitSchema /\ [][NextSchema]_vars

\* --------------------------------------- one task and a client of its events
InitEvents ==
  /\ tasks = <<NewRow("demo.sleep", NULL)>>
  /\ rowlock = [w \in Workers |-> 0]
  /\ pc = [w \in Workers |-> "idle"]
  /\ cur = [w \in Workers |-> 0]
  /\ sink = [w \in Workers |-> 0]
  /\ outcome = [w \in Workers |-> NoOutcome]
  /\ px = [w \in Workers |-> NoPx]
  /\ sunk = 0
  /\ claimlog = [t \in TaskIds |-> <<>>]
  /\ schema = SchemaDone
  /\ stream = NoStream

NextEvents ==
  \/ \E w \in Workers : claim_next_task(w)
  \/ \E w \in Workers : claim_commit(w)
  \/ \E w \in Workers : bind_progress(w)
  \/ \E w \in Workers : \E p \in ProgressInputs : exec_set_progress(w, p)
  \/ \E w \in Workers : exec_return(w)
  \/ \E w \in Workers : \E e \in ErrorTexts : exec_raise(w, e)
  \/ \E w \in Workers : run_one_finish(w)
  \/ \E w \in Workers : run_one_except(w)
  \/ \E w \in Workers : unbind_progress(w)
  \/ \E id \in {1, UnknownId} : task_events(id)
  \/ task_events_poll

SpecEvents == InitEvents /\ [][NextEvents]_vars

\* The generator runs on the server's event loop for as long as the client
\* stays connected: after every sleep(0.5) it polls again.
SpecEventsFair == SpecEvents /\ WF_vars(task_events_poll)

\* ------------------------- one search task, one candidate of any command line
InitInfer ==
  /\ \E c \in InferCandidates :
       tasks = <<NewRow("ffmpeg.search", [candidates |-> <<c>>])>>
  /\ rowlock = [w \in Workers |-> 0]
  /\ pc = [w \in Workers |-> "idle"]
  /\ cur = [w \in Workers |-> 0]
  /\ sink = [w \in Workers |-> 0]
  /\ outcome = [w \in Workers |-> NoOutcome]
  /\ px = [w \in Workers |-> NoPx]
  /\ sunk = 0
  /\ claimlog = [t \in TaskIds |-> <<>>]
  /\ schema = SchemaDone
  /\ stream = NoStream

NextInfer ==
  \/ \E w \in Workers : claim_next_task(w)
  \/ \E w \in Workers : claim_commit(w)
  \/ \E w \in Workers : bind_progress(w)
  \/ \E w \in Workers : run_search_start(w)

SpecInfer == InitInfer /\ [][NextInfer]_vars

\* ------------------------------------------ the claim loop, workers may die
\* Tasks of one kind, one progress value and one error text: what a dead
\* worker leaves behind does not depend on them.
NextDeath ==
  \/ enqueue("demo.sleep", NULL)
  \/ \E w \in Workers : claim_next_task(w)
  \/ \E w \in Workers : claim_commit(w)
  \/ \E w \in Workers : bind_progress(w)
  \/ \E w \in Workers : exec_set_progress(w, 50)
  \/ \E w \in Workers : exec_return(w)
  \/ \E w \in Workers : exec_raise(w, "boom")
  \/ \E w \in Workers : run_one_finish(w)
  \/ \E w \in Workers : run_one_except(w)
  \/ \E w \in Workers : unbind_progress(w)
  \/ \E w \in Workers : worker_dies(w)

SpecDeath == Init /\ [][NextDeath]_vars

Rows == 1..Len(tasks)

\* One pipeline task of one command, with or without timeoutMs, and one
\* worker process running (the others have stopped); the child process
\* writes to its two pipes while the runner selects, reads and polls.
InitPipe ==
  /\ \E tm \in {0, 1} :
       tasks = <<NewRow("ffmpeg.pipeline",
                        [commands |-> <<[args |-> TRUE, timeoutMs |-> tm]>>,
                         fallback_commands |-> <<>>])>>
  /\ rowlock = [w \in Workers |-> 0]
  /\ pc = [w \in Workers |-> IF w = 1 THEN "idle" ELSE "dead"]
  /\ cur = [w \in Workers |-> 0]
  /\ sink = [w \in Workers |-> 0]
  /\ outcome = [w \in Workers |-> NoOutcome]
  /\ px = [w \in Workers |-> NoPx]
  /\ sunk = 0
  /\ claimlog = [t \in TaskIds |-> <<>>]
  /\ schema = SchemaDone
  /\ stream = NoStream

\* The steps of the loop of _run_single_ffmpeg_command.
RunnerStep ==
  \E w \in Workers :
    \/ run_single_top(w)
    \/ run_single_select(w)
    \/ run_single_recv(w)
    \/ run_single_code(w)

NextPipe ==
  \/ \E w \in Workers : claim_next_task(w)
  \/ \E w \in Workers : claim_commit(w)
  \/ \E w \in Workers : bind_progress(w)
  \/ \E w \in Workers : attempt_step(w)
  \/ \E w \in Workers : run_single_start(w)
  \/ \E w \in Workers : \E s \in StreamSet : \E c \in {"x", "nl"} : child_write(w, s, c)
  \/ \E w \in Workers : child_write_done(w)
  \/ \E w \in Workers : \E rc \in {0, 1} : proc_exit(w, rc)
  \/ \E w \in Workers : deadline(w)
  \/ RunnerStep
  \/ \E w \in Workers : attempt_except(w)
  \/ \E w \in Workers : run_pipeline_handler(w)
  \/ \E w \in Workers : run_one_finish(w)
  \/ \E w \in Workers : run_one_except(w)
  \/ \E w \in Workers : unbind_progress(w)

SpecPipe == InitPipe /\ [][NextPipe]_vars

\* The worker's thread keeps running, the kernel completes a write once the
\* pipe has room, and the clock passes every deadline.
SpecPipeFair ==
  /\ SpecPipe
  /\ WF_vars(RunnerStep)
  /\ WF_vars(\E w \in Workers : child_write_done(w))
  /\ WF_vars(\E w \in Workers : deadline(w))

\* One task of any kind and one worker process running (the others have
\* stopped).
InitTerm ==
  /\ \E k \in Kinds :
       \E pl \in (IF k = "ffmpeg.pipeline" THEN PipelinePayloads ELSE {NULL}) :
         tasks = <<NewRow(k, pl)>>
  /\ rowlock = [w \in Workers |-> 0]
  /\ pc = [w \in Workers |-> IF w = 1 THEN "idle" ELSE "dead"]
  /\ cur = [w \in Workers |-> 0]
  /\ sink = [w \in Workers |-> 0]
  /\ outcome = [w \in Workers |-> NoOutcome]
  /\ px = [w \in Workers |-> NoPx]
  /\ sunk = 0
  /\ claimlog = [t \in TaskIds |-> <<>>]
  /\ schema = SchemaDone
  /\ stream = NoStream

\* The steps of the worker's own thread: main, run_one and the executors.
WorkerStep ==
  \E w \in Workers :
    \/ claim_next_task(w)
    \/ claim_commit(w)
    \/ bind_progress(w)
    \/ \E p \in ProgressInputs : exec_set_progress(w, p)
    \/ exec_return(w)
    \/ \E e \in ErrorTexts : exec_raise(w, e)
    \/ unknown_kind(w)
    \/ attempt_step(w)
    \/ run_single_start(w)
    \/ run_single_top(w)
    \/ run_single_poll(w)
    \/ attempt_except(w)
    \/ run_pipeline_handler(w)
    \/ run_one_finish(w)
    \/ run_one_except(w)
    \/ unbind_progress(w)

\* The process of a command without timeoutMs exits.
UntimedExit ==
  \E w \in Workers : \E rc \in {0, 1} :
    /\ px[w] # NoPx
    /\ px[w].proc = "running"
    /\ PipelineOf(w)[px[w].i + 1].timeoutMs = 0
    /\ proc_exit(w, rc)

NextTerm ==
  \/ WorkerStep
  \/ \E w \in Workers : \E rc \in {0, 1} : proc_exit(w, rc)
  \/ \E w \in Workers : deadline(w)

\* The worker keeps running, the clock passes every deadline, and every
\* command without a timeoutMs exits.
SpecTerm ==
  /\ InitTerm
  /\ [][NextTerm]_vars
  /\ WF_vars(WorkerStep)
  /\ WF_vars(\E w \in Workers : deadline(w))
  /\ WF_vars(UntimedExit)

\* The steps of worker w's thread in the claim loop, with an executor that
\* returns or raises.
LoopStep(w) ==
  \/ claim_next_task(w)
  \/ claim_commit(w)
  \/ bind_progress(w)
  \/ exec_return(w)
  \/ exec_raise(w, "boom")
  \/ run_one_finish(w)
  \/ run_one_except(w)
  \/ unbind_progress(w)

NextLoop ==
  \/ enqueue("demo.sleep", NULL)
  \/ \E w \in Workers : LoopStep(w)

\* Worker 1 keeps running its loop and every task it claims terminates; the
\* other workers may stop anywhere except inside claim_next_task, whose
\* statement is followed by its commit.
SpecLoop ==
  /\ Init
  /\ [][NextLoop]_vars
  /\ WF_vars(LoopStep(1))
  /\ \A w \in Workers : WF_vars(claim_commit(w))

Terminal(st) == st \in {"finished", "failed"}

\* C1: under concurrent claim_next_task calls every row is returned to at most
\* one caller, a row that left `queued` was returned to exactly one caller (the
\* worker in its locked_by), it was moved queued -> started exactly once, and
\* no two workers hold the same task.
C1_ExclusiveClaim ==
  /\ \A t \in TaskIds : Len(claimlog[t]) <= 1
  /\ \A t \in Rows :
       /\ tasks[t].status = "queued" => claimlog[t] = <<>> /\ tasks[t].seq = 0
       /\ tasks[t].status # "queued" => claimlog[t] = <<tasks[t].locked_by>>
  /\ \A w, v \in Workers :
       w # v =>
         /\ (cur[w] # 0 => cur[w] # cur[v])
         /\ (rowlock[w] # 0 => rowlock[w] # rowlock[v])

\* Two workers are inside claim_next_task at once, each with a row locked.
C1_Witness ==
  \E w, v \in Workers : w # v /\ rowlock[w] # 0 /\ rowlock[v] # 0

C3_ProgressRange ==
  /\ \A t \in Rows : tasks[t].progress \in 0..100
  /\ sunk \in 0..100

\* A running task whose executor reported more than 100.
C3_Witness ==
  \E t \in Rows : tasks[t].status = "started" /\ tasks[t].progress = 100 /\ sunk = 100

\* C4: a row is inserted with seq 0, and every step that changes a row adds
\* exactly 1 to its seq.
C4_SeqCounts ==
  [][/\ \A t \in Rows : tasks'[t] # tasks[t] => tasks'[t].seq = tasks[t].seq + 1
     /\ \A t \in (1..Len(tasks')) \ Rows : tasks'[t].seq = 0]_vars

\* A row that went through claim, a progress report and a terminal write.
C4_Witness ==
  \E t \in Rows : Terminal(tasks[t].status) /\ tasks[t].seq = 3

\* C5: when the executor of a claimed task has returned and run_one has written
\* the terminal state, the row is finished and the result read back from it is
\* the value the executor returned.
C5_RoundTrip ==
  \A w \in Workers :
    pc[w] = "finally" /\ outcome[w].type = "return" =>
      /\ tasks[cur[w]].status = "finished"
      /\ JsonLoads(tasks[cur[w]].result) = outcome[w].value
      /\ task_status(tasks[cur[w]]).result = outcome[w].value

\* A pipeline task finished with the result run_pipeline returned.
C5_Witness ==
  \E w \in Workers :
    /\ pc[w] = "finally" /\ outcome[w].type = "return"
    /\ tasks[cur[w]].kind = "ffmpeg.pipeline"
    /\ Len(outcome[w].value.history) >= 1
    /\ JsonLoads(tasks[cur[w]].result) = outcome[w].value

\* C6: a row's result is set only when it is finished, its error only when it
\* is failed, never both; the snapshot of task_status obeys the same.
C6_ResultErrorExclusive ==
  \A t \in Rows :
    /\ tasks[t].result # NULL => tasks[t].status = "finished"
    /\ tasks[t].error # NULL => tasks[t].status = "failed"
    /\ ~(tasks[t].result # NULL /\ tasks[t].error # NULL)
    /\ task_status(tasks[t]).result # NULL => tasks[t].status = "finished"
    /\ task_status(tasks[t]).error # NULL => tasks[t].status = "failed"

\* One row finished with a result, another failed with an error.
C6_Witness ==
  /\ \E t \in Rows : tasks[t].status = "finished" /\ tasks[t].result # NULL
  /\ \E t \in Rows : tasks[t].status = "failed" /\ tasks[t].error # NULL

\* C7: no exception of an executor or of an unknown kind leaves run_one: the
\* worker never crashes, the handler leads to `finally` with the row failed
\* and carrying the error text ("failed" for an empty text), and from there
\* the worker returns to the head of its loop.
C7_Contained ==
  \A w \in Workers :
    /\ pc[w] # "crashed"
    /\ pc[w] = "finally" /\ outcome[w].type = "raise" =>
         /\ tasks[cur[w]].status = "failed"
         /\ tasks[cur[w]].error =
              Text(IF outcome[w].text = "" THEN "failed" ELSE outcome[w].text)

C7_FailureContained ==
  /\ []C7_Contained
  /\ [][\A w \in Workers :
          /\ pc[w] = "raise" => pc'[w] \in {"raise", "finally"}
          /\ pc[w] = "finally" => pc'[w] \in {"finally", "idle"}]_vars

\* A worker that failed a task of unknown kind holds the next task.
C7_Witness ==
  \E w \in Workers : \E t \in Rows :
    /\ tasks[t].kind = "bogus" /\ tasks[t].status = "failed" /\ tasks[t].locked_by = w
    /\ cur[w] # 0 /\ cur[w] # t /\ pc[w] = "exec"

\* Workers inside or just after run_pipeline.
PipelineWorkers == {w \in Workers : px[w] # NoPx}

\* The attempt w is in is the last one run_pipeline makes.
LastAttempt(w) ==
  px[w].attempt = "fallback" \/ tasks[cur[w]].payload.fallback_commands = <<>>

\* C8 as stated: whenever a command ran past its timeoutMs, the task ends
\* failed with the timeout error.
C8_OverrunFails ==
  \A w \in PipelineWorkers :
    pc[w] = "finally" /\ px[w].overran =>
      /\ tasks[cur[w]].status = "failed"
      /\ tasks[cur[w]].error = Text(TimeoutText)

\* C8 amended: a TimeoutError is raised only past the deadline and leaves no
\* running process; its text differs from that of a non-zero exit; raised in
\* the last attempt of the pipeline it is never followed by a return of
\* run_pipeline, and the task ends failed with the timeout text.
C8_TimeoutFails ==
  \A w \in PipelineWorkers :
    px[w].err = Raised("TimeoutError", TimeoutText) =>
      /\ px[w].expired /\ px[w].proc # "running"
      /\ px[w].err.text # ExitText
      /\ LastAttempt(w) =>
           /\ pc[w] # "return"
           /\ tasks[cur[w]].status \in {"started", "failed"}
           /\ pc[w] = "finally" =>
                /\ tasks[cur[w]].status = "failed"
                /\ tasks[cur[w]].error = Text(TimeoutText)

\* A task failed by a timeout of a fallback command whose process was killed.
C8_Witness ==
  \E w \in PipelineWorkers :
    /\ pc[w] = "finally" /\ px[w].attempt = "fallback"
    /\ px[w].err = Raised("TimeoutError", TimeoutText) /\ px[w].proc = "killed"
    /\ tasks[cur[w]].status = "failed"

\* The history entries a finished or failed pipeline task keeps: those of its
\* result and those of meta.ffmpeg.
KeptHistory(row) ==
  LET r == JsonLoads(row.result)
      a == IF r # NULL /\ "history" \in DOMAIN r
           THEN {r.history[k] : k \in 1..Len(r.history)} ELSE {}
      b == IF "ffmpeg" \in DOMAIN row.meta /\ "history" \in DOMAIN row.meta.ffmpeg
           THEN {row.meta.ffmpeg.history[k] : k \in 1..Len(row.meta.ffmpeg.history)}
           ELSE {}
  IN a \cup b

\* C9 as stated: a pipeline whose first primary command failed and whose
\* fallback succeeded ends finished, and its history holds the failed primary
\* entry and one success entry per fallback command.
C9_FallbackHistory ==
  \A w \in PipelineWorkers :
    /\ pc[w] = "finally"
    /\ outcome[w].type = "return"
    /\ px[w].runlog # <<>>
    /\ px[w].runlog[1] = [attempt |-> "primary", index |-> 0, status |-> "failed"]
    => /\ tasks[cur[w]].status = "finished"
       /\ \E e \in KeptHistory(tasks[cur[w]]) : e.status = "failed"
       /\ \A k \in 1..Len(tasks[cur[w]].payload.fallback_commands) :
            \E e \in KeptHistory(tasks[cur[w]]) : e.index = k - 1 /\ e.status = "success"

\* The number of entries of attempt a in log r before position k.
RECURSIVE CountBefore(_, _, _)
CountBefore(r, a, k) ==
  IF k <= 1 THEN 0
  ELSE CountBefore(r, a, k - 1) + (IF r[k - 1].attempt = a THEN 1 ELSE 0)

\* Attempt a ran every command of list pl and each exited with code 0.
Succeeded(r, a, pl) ==
  \A i \in 0..(Len(pl) - 1) :
    \E k \in 1..Len(r) : r[k] = [attempt |-> a, index |-> i, status |-> "success"]

\* C10: the processes a pipeline started, in order: the primary's steps come
\* first, each attempt's steps are 0, 1, 2, ... of its list, a step follows
\* only a step of the same attempt that exited 0, the fallback starts only
\* after the primary failed and only if a fallback was supplied, and
\* run_pipeline raises only if neither the primary nor the fallback succeeded,
\* returns only if the attempt it is in succeeded.
C10_StateMachine ==
  \A w \in PipelineWorkers :
    LET r == px[w].runlog
        pay == tasks[cur[w]].payload
    IN /\ \A k \in 1..Len(r) :
            /\ r[k].index = CountBefore(r, r[k].attempt, k)
            /\ r[k].index < Len(IF r[k].attempt = "primary"
                                THEN pay.commands ELSE pay.fallback_commands)
            /\ r[k].status = "running" => k = Len(r)
            /\ k < Len(r) =>
                 /\ r[k].attempt = "fallback" => r[k + 1].attempt = "fallback"
                 /\ r[k].attempt = r[k + 1].attempt => r[k].status = "success"
       /\ px[w].attempt = "fallback" =>
            pay.fallback_commands # <<>> /\ ~Succeeded(r, "primary", pay.commands)
       /\ px[w].attempt = "primary" => \A k \in 1..Len(r) : r[k].attempt = "primary"
       /\ pc[w] \in {"raise", "finally"} /\ outcome[w].type = "raise" =>
            /\ ~Succeeded(r, "primary", pay.commands)
            /\ pay.fallback_commands # <<>> =>
                 px[w].attempt = "fallback" /\ ~Succeeded(r, "fallback", pay.fallback_commands)
       /\ pc[w] \in {"return", "finally"} /\ outcome[w].type = "return" =>
            Succeeded(r, px[w].attempt,
                      IF px[w].attempt = "primary" THEN pay.commands
                      ELSE pay.fallback_commands)

\* A primary that failed at its second step, then a fallback that ran both of
\* its steps.
C10_Witness ==
  \E w \in PipelineWorkers :
    /\ pc[w] = "return"
    /\ Len(px[w].runlog) = 4
    /\ px[w].runlog[2] = [attempt |-> "primary", index |-> 1, status |-> "failed"]
    /\ px[w].runlog[4] = [attempt |-> "fallback", index |-> 1, status |-> "success"]


\* Positions of run_one between bind_progress and unbind_progress.
Bound(w) == pc[w] \in {"exec", "return", "raise", "finally"}

\* A step that wrote a progress report to row t: the row stays started and
\* its sequence number grows.
ReportTo(t) ==
  /\ tasks[t].status = "started"
  /\ tasks'[t].status = "started"
  /\ tasks'[t].seq = tasks[t].seq + 1

C17_Scoped ==
  \A w \in Workers :
    /\ Bound(w) => cur[w] \in Rows /\ sink[w] = cur[w]
    /\ ~Bound(w) => sink[w] = 0

\* C17: the sink of a worker is bound to the task it holds from the start of
\* the executor until run_one's finally clause, whether the executor returned
\* or raised, and to nothing between tasks; every progress report is written
\* by a worker executing the task its sink is bound to, into that task's row
\* and into no other row.
C17_BindingScoped ==
  /\ []C17_Scoped
  /\ [][\A t \in Rows :
          ReportTo(t) =>
            /\ \E w \in Workers :
                 pc[w] = "exec" /\ cur[w] = t /\ sink[w] = t /\ tasks[t].locked_by = w
            /\ \A u \in Rows \ {t} : tasks'[u] = tasks[u]]_vars

\* A worker that ended one task reports progress of the next one it claimed.
C17_Witness ==
  \E w \in Workers : \E t, u \in Rows :
    /\ t # u
    /\ Terminal(tasks[t].status) /\ tasks[t].locked_by = w
    /\ pc[w] = "exec" /\ cur[w] = u /\ sink[w] = u
    /\ ReportsOf(tasks[u]) = 1 /\ ReportsOf(tasks[t]) = 0

\* Extra documents a write may carry.
Extras ==
  {NoExtra, [artifactPath |-> "a"], [ffmpeg |-> [error |-> "e"]],
   [ffmpeg |-> [step |-> 0], chosen |-> "c"]}

\* Writing extra e over meta m keeps every key of m that e does not supply,
\* with its value, and stores every key of e.
MergedInto(m, e, n) ==
  /\ \A k \in DOMAIN m : k \in DOMAIN n /\ (k \notin DOMAIN e => n[k] = m[k])
  /\ \A k \in DOMAIN e : k \in DOMAIN n /\ n[k] = e[k]
  /\ DOMAIN n = DOMAIN m \cup DOMAIN e

\* C18: on every row the program reaches, a progress report, a finish and a
\* fail that carry extra metadata merge it into meta as a shallow union: a
\* top-level key written earlier keeps its value unless the write supplies it.
C18_ShallowMerge ==
  \A t \in Rows : \A e \in Extras :
    /\ MergedInto(tasks[t].meta, e, update_task_progress(tasks[t], 50, "s", e).meta)
    /\ MergedInto(tasks[t].meta, e, finish_task(tasks[t], NULL, e).meta)
    /\ MergedInto(tasks[t].meta, e, fail_task(tasks[t], "boom", e).meta)

\* A finished pipeline task: meta holds the key written at enqueue next to
\* the key the progress reports wrote.
C18_Witness ==
  \E t \in Rows :
    /\ tasks[t].status = "finished"
    /\ tasks[t].kind = "ffmpeg.pipeline"
    /\ DOMAIN tasks[t].meta = {"seq", "ffmpeg"}
    /\ tasks[t].meta.seq = 0
    /\ "history" \in DOMAIN tasks[t].meta.ffmpeg

\* C19 as stated: after a pipeline task ended, finished or failed, meta.ffmpeg
\* holds a history with one entry per step that was started, in execution
\* order, each marked success or failed.
C19_HistoryRetained ==
  \A w \in PipelineWorkers :
    pc[w] = "finally" /\ tasks[cur[w]].kind = "ffmpeg.pipeline" /\ px[w].runlog # <<>> =>
      LET m == tasks[cur[w]].meta
          r == px[w].runlog
      IN /\ "ffmpeg" \in DOMAIN m
         /\ "history" \in DOMAIN m.ffmpeg
         /\ Len(m.ffmpeg.history) = Len(r)
         /\ \A k \in 1..Len(r) :
              /\ m.ffmpeg.history[k].index = r[k].index
              /\ m.ffmpeg.history[k].status = r[k].status
              /\ r[k].status \in {"success", "failed"}

\* Workers inside or just after run_search.
SearchWorkers ==
  {w \in Workers : px[w] # NoPx /\ cur[w] # 0 /\ tasks[cur[w]].kind = "ffmpeg.search"}

\* The candidate at original index a goes before the one at original index b:
\* fewer estimated encodes; at equal encode count an explicit score before
\* none and a lower score before a higher one; else the earlier submitted.
Precedes(cands, a, b) ==
  LET ca == cands[a + 1]
      cb == cands[b + 1]
      ea == infer_candidate_encode_count(ca)
      eb == infer_candidate_encode_count(cb)
  IN \/ ea < eb
     \/ /\ ea = eb
        /\ \/ ca.score # NULL /\ cb.score = NULL
           \/ ca.score # NULL /\ cb.score # NULL /\ ca.score.num < cb.score.num
           \/ /\ (ca.score = NULL) = (cb.score = NULL)
              /\ ca.score # NULL => ca.score.num = cb.score.num
              /\ a < b

PosIn(o, a) == CHOOSE k \in 1..Len(o) : o[k] = a

\* Log r ends with a failed step of attempt a.
EndsFailed(r, a) == r # <<>> /\ r[Len(r)].attempt = a /\ r[Len(r)].status = "failed"

C12_Tried ==
  \A w \in SearchWorkers :
    px[w].at \notin {"sort", "raised"} =>
      LET cands == tasks[cur[w]].payload.candidates
          o == px[w].ordered
          runs == px[w].runs
      IN /\ \A k \in 1..Len(runs) :
              LET c == cands[runs[k].cand + 1]
              IN /\ PosIn(o, runs[k].cand) <= px[w].oi
                 /\ k < Len(runs) => PosIn(o, runs[k].cand) < PosIn(o, runs[k + 1].cand)
                 /\ \E j \in 1..Len(runs[k].log) :
                      runs[k].log[j].attempt = "primary" /\ runs[k].log[j].status = "failed"
                 /\ IF c.fallbackCommands = <<>>
                    THEN EndsFailed(runs[k].log, "primary")
                    ELSE EndsFailed(runs[k].log, "fallback")
                 /\ px[w].attempts[k].origIndex = runs[k].cand
                 /\ px[w].attempts[k].status = "failed"
         /\ \A p \in 1..px[w].oi :
              \/ cands[o[p] + 1].commands = <<>>
              \/ \E k \in 1..Len(runs) : runs[k].cand = o[p]
         /\ px[w].runlog # <<>> =>
              /\ px[w].oi < Len(o)
              /\ \A k \in 1..Len(px[w].runlog) :
                   px[w].runlog[k].attempt = "fallback" =>
                     /\ CandOf(w).fallbackCommands # <<>>
                     /\ ~Succeeded(px[w].runlog, "primary", CandOf(w).commands)
         /\ pc[w] \in {"return", "finally"} /\ outcome[w].type = "return" =>
              LET v == outcome[w].value
              IN /\ v.chosen.label = OrigIndex(w)
                 /\ Succeeded(px[w].runlog, px[w].attempt, PipelineOf(w))
                 /\ \A k \in 1..Len(runs) : PosIn(o, runs[k].cand) < px[w].oi + 1
                 /\ Len(v.attempts) = Len(runs) + 1
                 /\ \A k \in 1..Len(runs) :
                      v.attempts[k].origIndex = runs[k].cand /\ v.attempts[k].status = "failed"
                 /\ v.attempts[Len(runs) + 1].origIndex = OrigIndex(w)
                 /\ v.attempts[Len(runs) + 1].status = "success"

\* C12: the candidates whose commands were run are met in sorted order; a
\* candidate is left for the next one only after its primary failed and, if
\* it has a fallback, its fallback failed as well; when run_search returns,
\* the chosen candidate is the one whose attempt succeeded, the attempts log
\* holds a failed entry for every candidate tried before it and then the
\* success entry, and no process is started afterwards.
C12_SortedOrderFirstSuccess ==
  /\ []C12_Tried
  /\ [][\A w \in Workers :
          pc[w] \in {"return", "finally"} /\ pc'[w] \in {"return", "finally"}
            => px'[w] = px[w]]_vars

\* The first candidate failed in its primary and in its fallback, the second
\* one succeeded and is returned as chosen.
C12_Witness ==
  \E w \in SearchWorkers :
    /\ pc[w] = "return"
    /\ Len(px[w].runs) = 1
    /\ EndsFailed(px[w].runs[1].log, "fallback")
    /\ outcome[w].value.chosen.label = px[w].ordered[2]
    /\ Len(outcome[w].value.attempts) = 2

AllFailedText == "all candidates failed"

\* C13 as stated: a search whose candidates all failed ends failed with the
\* error "all candidates failed", after a final report (progress 100, stage
\* "error") whose extra carries the attempts log, one failed entry per
\* candidate tried.
C13_AllCandidatesFailed ==
  \A w \in SearchWorkers :
    /\ pc[w] = "finally"
    /\ outcome[w].type = "raise"
    /\ px[w].ordered # <<>>
    /\ px[w].oi = Len(px[w].ordered)
    /\ px[w].runs # <<>>
    /\ Len(px[w].attempts) = Len(px[w].runs)
    => LET row == tasks[cur[w]]
       IN /\ row.status = "failed"
          /\ row.error = Text(AllFailedText)
          /\ "ffmpeg" \in DOMAIN row.meta
          /\ "attempts" \in DOMAIN row.meta.ffmpeg
          /\ row.meta.ffmpeg.attempts = px[w].attempts
          /\ \A k \in 1..Len(px[w].attempts) : px[w].attempts[k].status = "failed"

\* The step is the first report of a fallback attempt on row t.
FallbackRestart(t) ==
  \E w \in Workers :
    /\ cur[w] = t /\ px[w] # NoPx
    /\ px[w].at = "loop" /\ px[w].attempt = "fallback" /\ px[w].i = 0

\* C20 as stated: apart from the first report of a fallback attempt, no
\* progress report of an execution writes a value lower than the one the
\* previous report wrote.
C20_Monotonic ==
  [][\A t \in Rows :
       ReportTo(t) => tasks'[t].progress >= tasks[t].progress \/ FallbackRestart(t)]_vars

\* C16: a call of set_progress made with no sink bound returns to its caller
\* for every argument, an integer or not, in range or not: no exception
\* leaves it, no row is written and no sink is called.
C16_UnboundNoOp ==
  /\ [](\A w \in Workers : pc[w] # "crashed")
  /\ [][\A w \in Workers :
          pc[w] = "calling" /\ pc'[w] # "calling" /\ sink[w] = 0 =>
            /\ pc'[w] = "idle"
            /\ tasks' = tasks
            /\ sunk' = sunk]_vars

\* set_progress is called with a value int() rejects and with no sink bound
\* while another worker's task is started and has a progress report.
C16_Witness ==
  \E w \in Workers : \E t \in Rows :
    /\ pc[w] = "calling" /\ sink[w] = 0 /\ ~outcome[w].arg.isint
    /\ tasks[t].status = "started" /\ tasks[t].progress = 50

\* Workers inside or just after _run_single_ffmpeg_command of a pipeline task.
RunnerWorkers ==
  {w \in Workers : px[w] # NoPx /\ cur[w] # 0 /\ tasks[cur[w]].kind = "ffmpeg.pipeline"}

\* The fields whose key occurs in one of the lines.
KeysIn(lines) ==
  {f \in FieldNames :
     \E n \in 1..Len(lines) : \E k \in 1..Len(lines[n]) :
       lines[n][k].eq /\ (ClassicField(lines[n][k].k) = f
                          \/ (f = "time" /\ lines[n][k].k = "out_time_ms"))}

OnlyFrame == <<Tok("frame", "int")>>
FrameAndFps == <<Tok("frame", "int"), Tok("fps", "int")>>

C14_Parsed ==
  /\ parse_classic_progress_line(OnlyFrame) = NULL
  /\ parse_classic_progress_line(FrameAndFps) # NULL
  /\ parse_classic_progress_line(FrameAndFps).fields = {"frame", "fps"}
  /\ \A line \in Lines :
       parse_classic_progress_line(line) # NULL => Cardinality(KeysIn(<<line>>)) >= 2
  /\ \A w \in RunnerWorkers :
       /\ \A k \in 1..Len(px[w].loc.read) :
            LET e == px[w].loc.read[k]
            IN /\ e.line = <<Tok("", "na"), Tok("frame", "int")>> => e.res = "none"
               /\ e.res = "classic" => Cardinality(KeysIn(<<e.line>>)) >= 2
               /\ e.res = "kv" =>
                    /\ SplitKey(e.line) = "progress"
                    /\ Cardinality(KeysIn([n \in 1..(k - 1) |-> px[w].loc.read[n].line])) >= 2
       /\ LET m == tasks[cur[w]].meta
          IN "ffmpeg" \in DOMAIN m /\ "progress" \in DOMAIN m.ffmpeg =>
               /\ m.ffmpeg.progress.fields \subseteq FieldNames
               /\ Cardinality(m.ffmpeg.progress.fields) >= 2

\* C14: in both grammars a line or block yields a progress event only if at
\* least two of frame, fps, time, speed, size, bitrate were recognised in it;
\* the classic line `frame=120` yields none, `frame=120 fps=30` is parsed with
\* both fields; a line handled yields at most one report, and yields one
\* exactly when it was parsed and not throttled.
C14_TwoFieldMinimum ==
  /\ []C14_Parsed
  /\ [][\A w \in RunnerWorkers :
          px'[w] # NoPx /\ Len(px'[w].loc.read) = Len(px[w].loc.read) + 1 =>
            LET e == px'[w].loc.read[Len(px'[w].loc.read)]
            IN tasks'[cur[w]].seq =
                 tasks[cur[w]].seq + (IF e.res \in {"classic", "kv"} THEN 1 ELSE 0)]_vars

\* The line frame=120 alone yielded no event; the machine block it opens is
\* reported once the progress= line ends it with a second field.
C14_Witness ==
  \E w \in RunnerWorkers :
    LET r == px[w].loc.read
    IN /\ Len(r) = 3
       /\ r[1].line = <<Tok("frame", "int")>> /\ r[1].res = "none"
       /\ r[2].line = <<Tok("out_time_ms", "int")>> /\ r[2].res = "none"
       /\ r[3].line = <<Tok("progress", "word")>> /\ r[3].res = "kv"
       /\ tasks[cur[w]].meta.ffmpeg.progress.fields = {"frame", "time"}

\* C15 as stated: every classic-format line with at least two recognised
\* fields that the process writes, on stdout or on stderr, is classified as a
\* classic progress report and emitted, unless throttled.
C15_ClassicEmitted ==
  \A w \in RunnerWorkers :
    \A k \in 1..Len(px[w].loc.read) :
      LET e == px[w].loc.read[k]
      IN parse_classic_progress_line(e.line) # NULL => e.res \in {"classic", "throttled"}

\* ------------------------------------------------------------- claim order
\* Rows a claim_next_task call of w can see as queued: committed as queued
\* and not locked by the open claim of another caller.
Claimable(w) ==
  {u \in Rows : tasks[u].status = "queued" /\
                \A v \in Workers \ {w} : rowlock[v] # u}

\* Only w has ever taken a task: no other worker is inside claim_next_task or
\* run_one, and none was ever returned a row.
Solo(w) ==
  /\ \A v \in Workers \ {w} : pc[v] = "idle" /\ rowlock[v] = 0
  /\ \A t \in TaskIds : \A i \in 1..Len(claimlog[t]) : claimlog[t][i] = w

\* C21: the row a claim_next_task call takes is the earliest-created of the
\* rows that are queued and not locked by a concurrent caller at that moment;
\* while a single worker has done all the claiming, the rows that left
\* `queued` are a prefix of the table in created_at order (tasks are claimed
\* in enqueue order).
C21_OldestFirst ==
  /\ [][\A w \in Workers :
          (rowlock[w] = 0 /\ rowlock'[w] # 0) =>
            /\ rowlock'[w] \in Claimable(w)
            /\ \A u \in Claimable(w) : rowlock'[w] <= u]_vars
  /\ [](\A w \in Workers :
          Solo(w) =>
            \A t, u \in Rows :
              (u < t /\ tasks[t].status # "queued") => tasks[u].status # "queued")

\* A caller holds the lock on the oldest queued row, a younger queued row is
\* there as well, and a second caller has taken that younger row.
C21_Witness ==
  \E w, v \in Workers :
    /\ w # v
    /\ rowlock[w] # 0 /\ rowlock[v] # 0
    /\ rowlock[w] < rowlock[v]
    /\ tasks[rowlock[w]].status = "queued"

\* C22: a caller of claim_next_task never waits for the open claim of another
\* caller: the call can always complete; it takes a queued row no other caller
\* holds when there is one, and when there is none (no row queued, or every
\* queued row mid-claim) it returns None: it takes no row and changes none.
C22_SkipLocked ==
  \A w \in Workers :
    pc[w] = "idle" =>
      /\ ENABLED claim_next_task(w)
      /\ Claimable(w) # {} =>
           ~ENABLED (claim_next_task(w) /\ rowlock'[w] \notin Claimable(w))
      /\ Claimable(w) = {} =>
           ~ENABLED (claim_next_task(w) /\ (rowlock'[w] # 0 \/ tasks' # tasks \/ pc'[w] # "idle"))

\* A caller is about to call claim_next_task while every queued row is held
\* by the open claim of another caller.
C22_Witness ==
  \E w, v \in Workers :
    /\ w # v
    /\ pc[w] = "idle"
    /\ rowlock[v] # 0
    /\ Claimable(w) = {}
    /\ \A u \in Rows : tasks[u].status = "queued" => rowlock[v] = u

\* ---------------------------------------------------------- migrations
\* The position of a version in filename order.
FileIndex(v) == CHOOSE i \in 1..Len(Migrations) : Migrations[i].version = v

NoRepeat(s) == \A i, j \in 1..Len(s) : s[i] = s[j] => i = j

\* C23: with several instances in ensure_schema at once, at most one holds the
\* store's advisory lock and is past it; every script that holds statements
\* and was not recorded before is executed at most once over all instances,
\* the executions are in filename order, and the ledger holds each version
\* once: what it held before followed by what was executed.  An instance that
\* has returned from ensure_schema leaves every such script executed and
\* recorded, and an instance that read a ledger with every version in it
\* executes nothing.
C23_MigrationsOnce ==
  /\ \A w, v \in Workers :
       (pc[w] \in {"select", "scripts", "unlock"} /\ pc[v] \in {"select", "scripts", "unlock"})
         => w = v
  /\ NoRepeat(schema.ran)
  /\ NoRepeat(schema.ledger)
  /\ SeqToSet(schema.ran) \cap schema.before = {}
  /\ \A i, j \in 1..Len(schema.ran) :
       i < j => FileIndex(schema.ran[i]) < FileIndex(schema.ran[j])
  /\ SeqToSet(schema.ledger) = schema.before \cup SeqToSet(schema.ran)
  /\ \A w \in Workers :
       /\ pc[w] = "idle" =>
            /\ SeqToSet(schema.ledger) = Versions
            /\ SeqToSet(schema.ran) = Versions \ schema.before
       /\ (pc[w] = "scripts" /\ px[w].applied = Versions) => px[w].ran = <<>>

\* Scripts were outstanding, one instance has executed and recorded them and
\* returned, and a second instance, which took the lock after it, has gone
\* through every script and executed none.
C23_Witness ==
  \E w, v \in Workers :
    /\ w # v
    /\ pc[w] = "idle"
    /\ schema.ran # <<>>
    /\ pc[v] = "scripts"
    /\ px[v].i = Len(Migrations)
    /\ px[v].ran = <<>>

\* ------------------------------------------------------------- validation
\* The command list of a pipeline payload is empty or holds a command
\* without args.
InvalidCommands(cmds) == cmds = <<>> \/ \E i \in 1..Len(cmds) : ~cmds[i].args

\* C24: a pipeline task whose command list is empty, or holds a command whose
\* args are empty, ends failed with the validation error, and no process was
\* started for it.
C24_RejectedBeforeSpawn ==
  \A w \in PipelineWorkers :
    (pc[w] = "finally" /\ InvalidCommands(tasks[cur[w]].payload.commands)) =>
      /\ tasks[cur[w]].status = "failed"
      /\ tasks[cur[w]].error = Text(ArgsText)
      /\ px[w].runlog = <<>>

\* ---------------------------------------------------------- event stream
\* The snapshots the stream has sent, in order.
Snapshots == SelectSeq(stream.events, LAMBDA e : e.type = "progress")

\* The poll the generator would make now sends a snapshot.
PollSends ==
  ENABLED (task_events_poll /\
           Len(SelectSeq(stream'.events, LAMBDA e : e.type = "progress")) = Len(Snapshots) + 1)

\* C25: a poll of the event stream sends a status snapshot if and only if the
\* row's seq differs from the seq of the last snapshot sent (there is none at
\* the first poll, which always sends one); the seq values of the snapshots
\* sent are strictly increasing, so no snapshot is sent twice for an
\* unchanged row.
C25_SnapshotOnChange ==
  /\ (stream.at = "poll" /\ stream.id \in Rows) =>
       /\ (Snapshots = <<>> => stream.last_seq = -1 /\ PollSends)
       /\ (Snapshots # <<>> => stream.last_seq = Snapshots[Len(Snapshots)].seq)
       /\ PollSends <=> SeqOf(tasks[stream.id]) # stream.last_seq
  /\ \A i, j \in 1..Len(Snapshots) : i < j => Snapshots[i].seq < Snapshots[j].seq

\* The stream has sent two snapshots and is at a poll of the unchanged row.
C25_Witness ==
  /\ stream.at = "poll"
  /\ stream.id \in Rows
  /\ Len(Snapshots) = 2
  /\ SeqOf(tasks[stream.id]) = stream.last_seq

\* The terminal events the stream has sent.
Terminals == SelectSeq(stream.events, LAMBDA e : e.type \in {"done", "failed"})

\* C26: for a task that exists the stream sends at most one terminal event,
\* `done` for a finished row and `failed` for a failed one; it carries the
\* row's terminal snapshot, it is the last event, and the stream has ended
\* exactly when it was sent.  For an id no row has the stream sends one
\* error event and nothing else.  A stream that polls a terminal row, or an
\* unknown id, eventually ends.
C26_TerminalEvent ==
  /\ [](stream.id \in Rows =>
          /\ Len(Terminals) <= 1
          /\ (stream.at = "end") <=> (Len(Terminals) = 1)
          /\ \A i \in 1..Len(stream.events) : stream.events[i].type # "error"
          /\ Len(Terminals) = 1 =>
               LET e == stream.events[Len(stream.events)] IN
                 /\ e = Terminals[1]
                 /\ e.type = (IF tasks[stream.id].status = "finished" THEN "done" ELSE "failed")
                 /\ Terminal(tasks[stream.id].status)
                 /\ e.data = task_status(tasks[stream.id]))
  /\ []((stream.at # "none" /\ stream.id \notin Rows) =>
          \/ stream.at = "poll" /\ stream.events = <<>>
          \/ stream.at = "end" /\ stream.events = <<Event("error", -1, NULL)>>)
  /\ (stream.at = "poll" /\ stream.id \in Rows /\ Terminal(tasks[stream.id].status))
       ~> (stream.at = "end")
  /\ (stream.at = "poll" /\ stream.id \notin Rows) ~> (stream.at = "end")

\* The stream followed a task from queued to failed: it has sent more than one
\* snapshot, then the failed event, and has ended.
C26_Witness ==
  /\ stream.at = "end"
  /\ stream.id \in Rows
  /\ Len(Snapshots) >= 2
  /\ stream.events[Len(stream.events)].type = "failed"

\* ------------------------------------------------------------ progress 100
\* C27: progress 100 is on a pipeline task's row only once its pipeline has
\* succeeded (run_pipeline has returned): never while a command is running
\* and never on a path that ends in failure.
C27_HundredOnSuccess ==
  \A w \in PipelineWorkers :
    (cur[w] # 0 /\ tasks[cur[w]].progress = 100) => px[w].at = "returned"

\* --------------------------------------------------------- encode inference
\* The positions of the codec selections of a command line: -c or a
\* per-stream codec flag, followed by a value.
CodecSelections(a) == {k \in 1..(Len(a) - 1) : a[k] \in CodecFlags \cup {"-c"}}

\* Some codec selection names a codec other than `copy`.
SelectsNonCopy(a) == \E k \in CodecSelections(a) : Lower(a[k + 1]) # "copy"

\* C28: for the command line of a candidate run_search has sorted: a filter
\* flag gives `requires encode`, so does a command line without any codec
\* selection, a command line that selects a codec other than copy for some
\* stream is counted as an encode, and the inferred encode count of the
\* candidate is not below the number of its commands that select one.
C28_NeverUnderCounts ==
  \A w \in SearchWorkers :
    px[w].at = "next" =>
      \A c \in 1..Len(tasks[cur[w]].payload.candidates) :
        LET cand == tasks[cur[w]].payload.candidates[c] IN
          /\ \A k \in 1..Len(cand.commands) :
               LET a == cand.commands[k].args IN
                 /\ (\E f \in FilterFlags : Has(a, f)) => infer_command_requires_encode(a)
                 /\ CodecSelections(a) = {} => infer_command_requires_encode(a)
                 /\ SelectsNonCopy(a) => infer_command_requires_encode(a)
          /\ cand.encodeCount = NULL =>
               infer_candidate_encode_count(cand) >=
                 Cardinality({k \in 1..Len(cand.commands) :
                                SelectsNonCopy(cand.commands[k].args)})

\* ------------------------------------------------------------ row ownership
\* Worker w holds the claim on row t: it is the worker in locked_by, inside
\* run_one for t, and no other worker holds t or has a sink bound to it.
HoldsClaim(w, t) ==
  /\ tasks[t].locked_by = w
  /\ cur[w] = t
  /\ pc[w] \in {"exec", "return", "raise"}
  /\ \A v \in Workers \ {w} : cur[v] # t /\ sink[v] # t

\* C29: every write to a row after its claim (progress report, finish, fail)
\* is applied while the row is started and the worker in its locked_by holds
\* the claim; a queued row is changed by the claim alone, a terminal row is
\* never changed, and a row claimed by one worker is never written by
\* another.
C29_OwnerWrites ==
  [][\A t \in Rows :
       tasks'[t] # tasks[t] =>
         IF tasks[t].status = "queued"
         THEN \E w \in Workers : rowlock[w] = t /\ tasks'[t] = claim_update(tasks[t], w)
         ELSE /\ tasks[t].status = "started"
              /\ \E w \in Workers : HoldsClaim(w, t)
              /\ tasks'[t].locked_by = tasks[t].locked_by]_vars

\* Two workers hold different started tasks and one of them has written a
\* progress report to its row.
C29_Witness ==
  \E w, v \in Workers :
    /\ w # v
    /\ cur[w] # 0 /\ cur[v] # 0
    /\ tasks[cur[w]].status = "started" /\ tasks[cur[v]].status = "started"
    /\ tasks[cur[w]].seq = 2
    /\ pc[w] = "exec" /\ pc[v] = "exec"

\* ------------------------------------------------------------ dead workers
\* C30: once a worker has died holding a task it had claimed and not yet
\* finished or failed, the row stays as it is in every later step - started,
\* with that worker in locked_by - the worker stays dead, and no other worker
\* locks or holds the row.
C30_StartedForever ==
  /\ [](\A w \in Workers :
          (pc[w] = "dead" /\ cur[w] # 0 /\ tasks[cur[w]].status = "started") =>
            /\ tasks[cur[w]].locked_by = w
            /\ \A v \in Workers \ {w} : cur[v] # cur[w] /\ rowlock[v] # cur[w])
  /\ [][\A w \in Workers :
          (pc[w] = "dead" /\ cur[w] # 0 /\ tasks[cur[w]].status = "started") =>
            /\ pc'[w] = "dead"
            /\ cur'[w] = cur[w]
            /\ tasks'[cur[w]] = tasks[cur[w]]]_vars

\* A worker died inside its executor; since then another worker has claimed,
\* run and finished a younger task, and the dead worker's row is still started.
C30_Witness ==
  \E w, v \in Workers :
    /\ w # v
    /\ pc[w] = "dead" /\ cur[w] # 0
    /\ tasks[cur[w]].status = "started"
    /\ pc[v] = "idle"
    /\ \E t \in Rows : t > cur[w] /\ tasks[t].status = "finished" /\ tasks[t].locked_by = v

\* ---------------------------------------------------------------- throttle
\* The progress event a line completes, given the locals before it: the
\* block its `progress=` line ends, or the classic report it is.
EventOf(loc, line) ==
  IF HasEq(line) /\ SplitKey(line) # ""
  THEN IF SplitKey(line) = "progress"
       THEN parse_kv_progress_block((SplitKey(line) :> SplitValue(line)) @@ loc.kv_block,
                                    Append(loc.kv_raw, line))
       ELSE NULL
  ELSE parse_classic_progress_line(line)

\* C31: with the runner inside its read loop, for every line it may read next
\* that completes a progress event: the event is dropped if and only if its
\* raw text equals that of the previous emission and less than 0.2 s have
\* passed since; otherwise (other raw text, or 0.2 s or more) it is emitted
\* and becomes the previous emission.
C31_Throttle ==
  \A w \in RunnerWorkers :
    px[w].at = "poll" =>
      \A line \in Lines : \A soon \in BOOLEAN :
        LET ev == EventOf(px[w].loc, line)
            h == handle_line(px[w].loc, line, "stderr", soon)
        IN ev # NULL =>
             /\ (h.parsed = NULL) <=> (soon /\ ev.raw = px[w].loc.last_raw)
             /\ h.parsed # NULL => h.parsed = ev /\ h.last_raw = ev.raw
             /\ h.parsed = NULL => h.last_raw = px[w].loc.last_raw

\* An event was emitted and the same event, read again within 0.2 s, was
\* dropped.
C31_Witness ==
  \E w \in RunnerWorkers :
    \E k \in 2..Len(px[w].loc.read) :
      /\ px[w].loc.read[k].res = "throttled"
      /\ px[w].loc.read[k - 1].res \in {"kv", "classic"}
      /\ px[w].loc.read[k - 1].line = px[w].loc.read[k].line

\* ------------------------------------------------------------- false timeout
\* C35: a TimeoutError is raised only for a command whose process was still
\* running when its timeoutMs had passed; a process that exited before the
\* deadline is never reported as a timeout.
C35_TimeoutOnlyIfRunning ==
  \A w \in PipelineWorkers :
    px[w].err = Raised("TimeoutError", TimeoutText) => px[w].overran

\* ------------------------------------------------------- terminal row shape
\* C33: in every reachable state a finished row has progress 100 and stage
\* "done", and a failed row has stage "error" and a non-empty error text
\* ("failed" when the exception's text is empty, otherwise that text); the
\* write that fails a row leaves its progress at the last reported value.
TerminalShape(row) ==
  /\ row.status = "finished" => row.progress = 100 /\ row.stage = "done"
  /\ row.status = "failed" =>
       /\ row.stage = "error"
       /\ row.error # NULL
       /\ row.error.text # ""

FailStep ==
  \A t \in Rows :
    tasks[t].status # "failed" /\ tasks'[t].status = "failed" =>
      /\ tasks'[t].progress = tasks[t].progress
      /\ \E w \in Workers :
           /\ cur[w] = t
           /\ tasks'[t].error =
                Text(IF outcome[w].text = "" THEN "failed" ELSE outcome[w].text)

C33_TerminalShape ==
  /\ [](\A t \in Rows : TerminalShape(tasks[t]))
  /\ [][FailStep]_vars

\* A row failed by an exception with empty text after a progress report: it
\* keeps the reported progress and carries "failed".
C33_Witness ==
  \E t \in Rows :
    /\ tasks[t].status = "failed"
    /\ tasks[t].progress \notin {0, 100}
    /\ tasks[t].stage = "error"
    /\ tasks[t].error = Text("failed")

\* --------------------------------------------------------- one task at a time
\* The rows worker w has claimed and not yet finished or failed.
Executing(w) ==
  {t \in Rows : tasks[t].status = "started" /\ tasks[t].locked_by = w}

\* C39: a worker executes at most one task at a time: at most one started row
\* is locked by a given worker, that row is the one run_one is working on, and
\* while the worker is at claim_next_task (before its commit) it holds none.
C39_OneAtATime ==
  \A w \in Workers :
    /\ Cardinality(Executing(w)) <= 1
    /\ Executing(w) \subseteq {cur[w]}
    /\ pc[w] \in {"idle", "commit"} => Executing(w) = {}

\* A worker that has brought one task to its terminal write executes a second.
C39_Witness ==
  \E w \in Workers : \E t \in Rows :
    /\ tasks[t].locked_by = w
    /\ Terminal(tasks[t].status)
    /\ Executing(w) # {}
    /\ pc[w] = "exec"

\* ------------------------------------------------------------ machine blocks
\* A line of a machine block: the single word key=value with a key.
MachineLine(line) == Len(line) = 1 /\ line[1].eq /\ line[1].k # ""

\* The fields of the event the terminator `progress=continue` yields when it
\* is read right after `before`, and the accumulator it leaves.
Terminated(loc, before) ==
  LET mid == IF before = <<>> THEN loc
             ELSE handle_line(loc, before[1], "stderr", FALSE)
      h == handle_line([kv_block |-> mid.kv_block, kv_raw |-> mid.kv_raw,
                        last_raw |-> <<>>, read |-> <<>>],
                       <<Tok("progress", "word")>>, "stdout", FALSE)
  IN [fields |-> IF h.parsed = NULL THEN {} ELSE h.parsed.fields,
      kv_block |-> h.kv_block]

\* C36: the fields of a machine-block event come from the key=value lines of
\* its block only: a log line or a classic-format line holding "=" that is
\* read before the terminator changes none of them, and the accumulator is
\* empty after every terminator.
C36_BlocksIsolated ==
  \A w \in RunnerWorkers :
    px[w].at = "poll" =>
      \A line \in Lines :
        /\ Terminated(px[w].loc, <<line>>).kv_block = EmptyBlock
        /\ ~MachineLine(line) =>
             Terminated(px[w].loc, <<line>>).fields = Terminated(px[w].loc, <<>>).fields

\* ------------------------------------------------------ runner and child pipes
\* w is inside the loop of _run_single_ffmpeg_command.
InLoop(w) == InRunner(w) /\ px[w].at \in {"top", "poll", "read"}

\* The child of w's command is inside a write to a full pipe.
Blocked(w) ==
  /\ px[w] # NoPx
  /\ px[w].proc = "running"
  /\ px[w].io.pend # NoPend
  /\ Len(px[w].io.pipe[px[w].io.pend.s]) = PipeCap

\* The lines the child wrote to s, the text after the last line end included.
WrittenLines(io, s) == SplitBuf(Append(io.written[s], "nl"), <<>>, <<>>).lines

\* C32: the runner never deadlocks with the child: while the child runs the
\* runner is in its loop and its next step (timeout check, select, read,
\* poll) can always be taken, whatever the pipes hold; and a child blocked in
\* a write to a full pipe is unblocked again: the runner empties the pipe,
\* or the process is killed by the timeout.
C32_NoDeadlock ==
  /\ [](\A w \in Workers :
          /\ px[w] # NoPx /\ px[w].proc = "running" => InLoop(w)
          /\ InLoop(w) =>
               ENABLED (\/ run_single_top(w) \/ run_single_select(w)
                        \/ run_single_recv(w) \/ run_single_code(w)))
  /\ \A w \in Workers : Blocked(w) ~> ~Blocked(w)

\* The child is blocked in a write to its full stderr pipe while its stdout
\* pipe is empty and the runner is about to read stdout.
C32_Witness ==
  \E w \in Workers :
    /\ Blocked(w)
    /\ px[w].io.pend.s = "stderr"
    /\ px[w].io.pipe["stdout"] = <<>>
    /\ px[w].at = "read"
    /\ px[w].io.rlist # <<>>

\* C34: no output is lost at process exit: when the runner has the return
\* code, the captured lines of each stream are the non-empty lines the child
\* wrote to it, and the stderr tail of a non-zero-exit error is the tail of
\* what the child wrote to stderr.
C34_NoOutputLost ==
  \A w \in Workers :
    (px[w] # NoPx /\ px[w].io.rc # -1) =>
      /\ \A s \in StreamSet : px[w].io.lines[s] = WrittenLines(px[w].io, s)
      /\ px[w].io.rc = 1 =>
           px[w].io.tail = LastN(WrittenLines(px[w].io, "stderr"), TailLines)

\* C40: a command with a timeoutMs always leaves the loop of the runner,
\* whatever the child does (no exit, no output, line ends without end); a
\* command without a timeoutMs leaves it only when the child has exited.
C40_Terminates ==
  /\ \A w \in Workers :
       (InLoop(w) /\ PipelineOf(w)[px[w].i + 1].timeoutMs # 0) ~> ~InLoop(w)
  /\ [][\A w \in Workers :
          (/\ InLoop(w)
           /\ PipelineOf(w)[px[w].i + 1].timeoutMs = 0
           /\ px'[w].at \notin {"top", "poll", "read"})
          => px[w].proc \in {"exit0", "exit1"}]_vars

\* A child that was still writing when the timeout was found passed: the
\* process is killed and TimeoutError is raised.
C40_Witness ==
  \E w \in Workers :
    /\ px[w] # NoPx
    /\ px[w].proc = "killed"
    /\ px[w].err = Raised("TimeoutError", TimeoutText)
    /\ px[w].io.written["stdout"] # <<>>

\* ------------------------------------------------------ termination of tasks
\* C37: a claimed task reaches a terminal state: while its worker keeps
\* running and every command exits or has a timeoutMs, a row in status
\* started becomes finished or failed.
C37_EventuallyTerminal ==
  \A t \in TaskIds :
    (t \in Rows /\ tasks[t].status = "started")
      ~> (t \in Rows /\ Terminal(tasks[t].status))

\* A pipeline task whose process never exited was failed by the timeout.
C37_Witness ==
  \E w \in Workers :
    /\ pc[w] = "finally"
    /\ px[w] # NoPx
    /\ px[w].proc = "killed"
    /\ px[w].overran
    /\ tasks[cur[w]].status = "failed"
    /\ tasks[cur[w]].error = Text(TimeoutText)

\* ---------------------------------------------------------------- starvation
\* C38: no queued row is starved: with one worker that keeps running its
\* claim loop, every queued row is eventually claimed; and a row enqueued
\* later is claimed before it only while the earlier row is locked by the
\* claim of another worker, which commits.
C38_NoStarvation ==
  /\ \A t \in TaskIds :
       (t \in Rows /\ tasks[t].status = "queued")
         ~> (t \in Rows /\ tasks[t].status # "queued")
  /\ [][\A t \in Rows : \A u \in Rows :
          (/\ t < u
           /\ tasks[t].status = "queued"
           /\ tasks[u].status = "queued"
           /\ tasks'[u].status = "started")
          => \E w \in Workers : rowlock[w] = t /\ pc[w] = "commit"]_vars

\* A later row was claimed while the oldest queued row was locked by the
\* claim of another worker: the older row is still queued.
C38_Witness ==
  \E t \in Rows : \E u \in Rows :
    /\ t < u
    /\ tasks[t].status = "queued"
    /\ tasks[u].status = "started"
    /\ \E w \in Workers : rowlock[w] = t

====
